---- MODULE Spec2Model ----
(***************************************************************************)
(* Model of the symbol resolution and semantic extraction engine:          *)
(*   analyzer/symbols.rs        SymbolTable (build, merge, resolve,        *)
(*                              template resolution)                       *)
(*   extractor/schemas.rs       SchemaExtractor                            *)
(*   extractor/prompts_enhanced.rs  deduplicate                            *)
(*   extractor/tools.rs, beautified_tools.rs, mod.rs  tool records         *)
(* Text is a sequence of one-character strings; identifiers are strings.   *)
(***************************************************************************)
EXTENDS Integers, Sequences, FiniteSets, TLC

VARIABLES
    pc,           \* position of the running operation
    program,      \* SymbolTable.program: the top-level statements
    stmt_idx,     \* index of the next statement of pass 1
    symbols,      \* SymbolTable.symbols
    lazy_blocks,  \* SymbolTable.lazy_blocks
    symbols0,     \* symbols as they were when resolve_references was entered
    rounds,       \* iterations of resolve_references executed so far
    last_changed, \* the `changed` flag of the latest round
    template,     \* argument of the running resolve_template call
    result,       \* `result` of resolve_template
    passes,       \* iterations of the loop of resolve_template executed
    calls,        \* resolve_template calls started on this table
    first_result, \* what the first resolve_template call returned
    schema_call,  \* the call handed to parse_schema_builder_call
    schema_result, \* what parse_schema_builder_call returned
    prompts,      \* argument of deduplicate
    dedup_idx,    \* index of the next prompt of the loop of deduplicate
    seen_content, \* `seen_content` of deduplicate: key -> index into result
    dedup_result, \* `result` of deduplicate
    objects,      \* the object expressions the analyzer found
    captures,     \* the matches of the tool-name pattern in the regenerated text
    tool_idx,     \* index of the next object or match of the running extract
    tools,        \* `tools` of the running extract
    beautified_code, \* BeautifiedToolExtractor.beautified_code
    with_ast,     \* whether the extractor holds a symbol table (with_ast)
    enhanced_prompts, \* argument of extract_tools_with_enhanced_prompts
    base_tools,   \* the tools as BeautifiedToolExtractor::extract returned them
    enrich_idx,   \* index of the next tool of the enrichment loop
    replaced,     \* per tool, how often the enrichment loop replaced its text
    cand_text,    \* the text handed to the classifier predicates
    cand_tool,    \* the tool identity handed to is_tool_prompt_for
    verdict,      \* what the classifier predicates returned for text
    string_literals, \* what find_string_literals returned to extract
    lit_idx,      \* index of the next literal of the loop of extract
    basic_prompts, \* `basic_prompts` of EnhancedPromptExtractor::extract
    prompts_with_tools, \* what associate_tools returned
    merge_idx,    \* index of the next prompt of the loop of merge_fragments
    used_indices, \* `used_indices` of merge_fragments
    merged_prompts \* `result` of merge_fragments

symvars == <<program, stmt_idx, symbols, lazy_blocks, symbols0, rounds, last_changed>>
tmplvars == <<template, result, passes, calls, first_result>>
schemavars == <<schema_call, schema_result>>
dedupvars == <<prompts, dedup_idx, seen_content, dedup_result>>
toolvars == <<objects, captures, tool_idx, tools, beautified_code, with_ast>>
enrichvars == <<enhanced_prompts, base_tools, enrich_idx, replaced>>
textvars == <<cand_text, cand_tool, verdict>>
assemblevars == <<string_literals, lit_idx, basic_prompts, prompts_with_tools, merge_idx,
                  used_indices, merged_prompts>>
extvars == <<schemavars, dedupvars, toolvars, enrichvars, textvars, assemblevars>>
vars == <<pc, symvars, tmplvars, extvars>>

(***************************************************************************)
(* Bounds of the model.                                                    *)
(***************************************************************************)
MaxStmts == 3     \* statements of a program drawn from StatementPool
MaxChain == 11    \* References in a generated reference chain
MaxPasses == 12   \* cap on the modelled passes of the unbounded template loop

(***************************************************************************)
(* SymbolValue                                                             *)
(***************************************************************************)
SymString(s) == [tag |-> "String", s |-> s, n |-> 0, b |-> FALSE, name |-> "", schema |-> <<>>]
SymTemplateLiteral(s) ==
    [tag |-> "TemplateLiteral", s |-> s, n |-> 0, b |-> FALSE, name |-> "", schema |-> <<>>]
SymNumber(n) == [tag |-> "Number", s |-> <<>>, n |-> n, b |-> FALSE, name |-> "", schema |-> <<>>]
SymBoolean(b) == [tag |-> "Boolean", s |-> <<>>, n |-> 0, b |-> b, name |-> "", schema |-> <<>>]
SymObjectRef(name) ==
    [tag |-> "ObjectRef", s |-> <<>>, n |-> 0, b |-> FALSE, name |-> name, schema |-> <<>>]
SymSchema(tree) ==
    [tag |-> "Schema", s |-> <<>>, n |-> 0, b |-> FALSE, name |-> "", schema |-> <<tree>>]
SymUnknown == [tag |-> "Unknown", s |-> <<>>, n |-> 0, b |-> FALSE, name |-> "", schema |-> <<>>]

IsObjectRef(v) == v.tag = "ObjectRef"

\* HashMap::insert
Insert(map, key, value) ==
    [x \in (DOMAIN map) \cup {key} |-> IF x = key THEN value ELSE map[x]]

EmptyMap == [x \in {} |-> SymUnknown]

(***************************************************************************)
(* AST nodes (the parser's output).                                        *)
(***************************************************************************)
StringLiteral(chars) == [kind |-> "StringLiteral", value |-> chars]
TemplateLiteralExpr(quasis, nexpr) ==
    [kind |-> "TemplateLiteral", quasis |-> quasis, expressions |-> nexpr]
NumericLiteral(n) == [kind |-> "NumericLiteral", value |-> n]
BooleanLiteral(b) == [kind |-> "BooleanLiteral", value |-> b]
Identifier(name) == [kind |-> "Identifier", name |-> name, schema |-> <<>>]
CallExpression(callee, arguments) ==
    [kind |-> "CallExpression", callee |-> callee, arguments |-> arguments]
ArrowFunctionExpression(statements, span) ==
    [kind |-> "ArrowFunctionExpression", body |-> statements, span |-> span]
FunctionExpression(statements) == [kind |-> "FunctionExpression", body |-> statements]
AssignmentExpression(left, right) ==
    [kind |-> "AssignmentExpression", left |-> left, right |-> right]
AssignmentTargetIdentifier(name) == [kind |-> "AssignmentTargetIdentifier", name |-> name, schema |-> <<>>]
MemberTarget == [kind |-> "StaticMemberExpression"]
OtherExpression == [kind |-> "ArrayExpression"]

BindingIdentifier(name) == [kind |-> "BindingIdentifier", name |-> name, schema |-> <<>>]
ObjectPattern == [kind |-> "ObjectPattern"]
NoInit == <<>>
Declarator(id, init) == [id |-> id, init |-> init]
VariableDeclaration(declarations) ==
    [kind |-> "VariableDeclaration", declarations |-> declarations]
FunctionDeclaration(name, statements) ==
    [kind |-> "FunctionDeclaration", id |-> name, body |-> statements]
ReturnStatement(argument) == [kind |-> "ReturnStatement", argument |-> argument]
ExpressionStatement(expr) == [kind |-> "ExpressionStatement", expression |-> expr]
Var(name, init) == VariableDeclaration(<<Declarator(BindingIdentifier(name), <<init>>)>>)

Uppercase ==
    {"A", "B", "C", "D", "E", "F", "G", "H", "I", "J", "K", "L", "M",
     "N", "O", "P", "Q", "R", "S", "T", "U", "V", "W", "X", "Y", "Z"}

\* is_lazy_init_call that knows the sentinel name only
Mut_IsLazyInitCall(call) ==
    IF call.callee.kind = "Identifier" THEN call.callee.name = "lazy_init" ELSE FALSE

\* SymbolTable::is_lazy_init_call
IsLazyInitCall(call) ==
    IF call.callee.kind = "Identifier"
    THEN LET name == call.callee.name
         IN name = "lazy_init" \/ name = "T" \/ (Len(name) = 1 /\ name \in Uppercase)
    ELSE FALSE

\* the TemplateLiteral arm of extract_value: quasis joined by the placeholder
RECURSIVE TemplateContent(_, _, _)
TemplateContent(quasis, nexpr, i) ==
    IF i > Len(quasis) THEN <<>>
    ELSE quasis[i]
         \o (IF i - 1 < nexpr THEN <<"$", "{", ".", ".", ".", "}">> ELSE <<>>)
         \o TemplateContent(quasis, nexpr, i + 1)

(***************************************************************************)
(* extract_value and the delayed-init harvest.  extract_value returns the  *)
(* value together with the blocks it pushed on lazy_blocks, in push order. *)
(***************************************************************************)
RECURSIVE ExtractValue(_), ExtractAssignments(_, _)

\* SymbolTable::extract_lazy_init_block
ExtractLazyInitBlock(call) ==
    IF call.arguments # <<>> /\ call.arguments[1].kind = "ArrowFunctionExpression"
    THEN LET arrow == call.arguments[1]
             r == ExtractAssignments(arrow.body, 1)
         IN r.blocks \o
            (IF r.assignments # <<>>
             THEN <<[assignments |-> r.assignments, span |-> arrow.span]>>
             ELSE <<>>)
    ELSE <<>>

\* SymbolTable::extract_value
ExtractValue(expr) ==
    CASE expr.kind = "StringLiteral" ->
            [value |-> SymString(expr.value), blocks |-> <<>>]
      [] expr.kind = "TemplateLiteral" ->
            [value |-> SymTemplateLiteral(TemplateContent(expr.quasis, expr.expressions, 1)),
             blocks |-> <<>>]
      [] expr.kind = "NumericLiteral" ->
            [value |-> SymNumber(expr.value), blocks |-> <<>>]
      [] expr.kind = "BooleanLiteral" ->
            [value |-> SymBoolean(expr.value), blocks |-> <<>>]
      [] expr.kind = "Identifier" ->
            [value |-> SymObjectRef(expr.name), blocks |-> <<>>]
      [] expr.kind = "CallExpression" ->
            [value |-> SymUnknown,
             blocks |-> IF IsLazyInitCall(expr) THEN ExtractLazyInitBlock(expr) ELSE <<>>]
      [] OTHER -> [value |-> SymUnknown, blocks |-> <<>>]

\* SymbolTable::extract_assignments_from_function_body, from statement i on
ExtractAssignments(body, i) ==
    IF i > Len(body) THEN [assignments |-> <<>>, blocks |-> <<>>]
    ELSE LET stmt == body[i]
             harvested ==
                 /\ stmt.kind = "ExpressionStatement"
                 /\ stmt.expression.kind = "AssignmentExpression"
                 /\ stmt.expression.left.kind = "AssignmentTargetIdentifier"
         IN IF harvested
            THEN LET r == ExtractValue(stmt.expression.right)
                     rest == ExtractAssignments(body, i + 1)
                 IN [assignments |-> <<<<stmt.expression.left.name, r.value>>>>
                                        \o rest.assignments,
                     blocks |-> r.blocks \o rest.blocks]
            ELSE ExtractAssignments(body, i + 1)

\* SymbolTable::visit_variable_declaration, from declarator i on;
\* st is [symbols, lazy_blocks]
RECURSIVE VisitDeclarators(_, _, _)
VisitDeclarators(st, declarations, i) ==
    IF i > Len(declarations) THEN st
    ELSE LET d == declarations[i]
         IN IF d.id.kind = "BindingIdentifier" /\ d.init # NoInit
            THEN LET r == ExtractValue(d.init[1])
                 IN VisitDeclarators(
                        [symbols |-> Insert(st.symbols, d.id.name, r.value),
                         lazy_blocks |-> st.lazy_blocks \o r.blocks],
                        declarations, i + 1)
            ELSE VisitDeclarators(st, declarations, i + 1)

\* a search that keeps the last return statement with an argument
Mut_FirstReturn(statements, i) ==
    LET returns == {k \in i..Len(statements) :
                       /\ statements[k].kind = "ReturnStatement"
                       /\ statements[k].argument # <<>>}
    IN IF returns = {} THEN 0
       ELSE CHOOSE k \in returns : \A h \in returns : h <= k

\* index of the first return statement with an argument, 0 when there is none
RECURSIVE FirstReturn(_, _)
FirstReturn(statements, i) ==
    IF i > Len(statements) THEN 0
    ELSE IF statements[i].kind = "ReturnStatement" /\ statements[i].argument # <<>>
         THEN i
         ELSE FirstReturn(statements, i + 1)

\* SymbolTable::visit_function_declaration
VisitFunctionDeclaration(st, func) ==
    LET i == FirstReturn(func.body, 1)
    IN IF i = 0 THEN st
       ELSE LET r == ExtractValue(func.body[i].argument[1])
            IN [symbols |-> Insert(st.symbols, func.id, r.value),
                lazy_blocks |-> st.lazy_blocks \o r.blocks]

\* SymbolTable::visit_statement
VisitStatementOp(st, stmt) ==
    CASE stmt.kind = "VariableDeclaration" -> VisitDeclarators(st, stmt.declarations, 1)
      [] stmt.kind = "FunctionDeclaration" -> VisitFunctionDeclaration(st, stmt)
      [] OTHER -> st

\* a merge that never replaces a binding the table already holds
RECURSIVE Mut_MergeAssignments(_, _, _)
Mut_MergeAssignments(map, assignments, i) ==
    IF i > Len(assignments) THEN map
    ELSE Mut_MergeAssignments(
             IF assignments[i][1] \in DOMAIN map THEN map
             ELSE Insert(map, assignments[i][1], assignments[i][2]),
             assignments, i + 1)

\* SymbolTable::process_lazy_init_blocks: the assignments of block b from i on
RECURSIVE MergeAssignments(_, _, _)
MergeAssignments(map, assignments, i) ==
    IF i > Len(assignments) THEN map
    ELSE MergeAssignments(Insert(map, assignments[i][1], assignments[i][2]),
                          assignments, i + 1)

RECURSIVE MergeBlocks(_, _, _)
MergeBlocks(map, blocks, b) ==
    IF b > Len(blocks) THEN map
    ELSE MergeBlocks(MergeAssignments(map, blocks[b].assignments, 1), blocks, b + 1)

(***************************************************************************)
(* resolve_references                                                      *)
(***************************************************************************)
\* a loop bound that is one round short
Mut_max_iterations == 10 - 1

max_iterations == 10

\* a round that copies the target's value even when it is a Reference
Mut_ResolveBinding(symbols_copy, value) ==
    IF IsObjectRef(value) /\ value.name \in DOMAIN symbols_copy
    THEN symbols_copy[value.name]
    ELSE value

\* what one binding becomes in a round that reads the snapshot symbols_copy
ResolveBinding(symbols_copy, value) ==
    IF IsObjectRef(value) /\ value.name \in DOMAIN symbols_copy
       /\ ~IsObjectRef(symbols_copy[value.name])
    THEN symbols_copy[value.name]
    ELSE value

\* a round that updates the table in place and reads the table it is updating
RECURSIVE InPlaceRound(_, _)
InPlaceRound(map, todo) ==
    IF todo = {} THEN map
    ELSE LET x == CHOOSE y \in todo : TRUE
         IN InPlaceRound([map EXCEPT ![x] = ResolveBinding(map, map[x])], todo \ {x})

Mut_ResolveRoundOp(map) == InPlaceRound(map, DOMAIN map)

\* a round that drops the bindings whose Reference names no binding
Mut_ResolveRoundDrop(map) ==
    [x \in {y \in DOMAIN map : ~IsObjectRef(map[y]) \/ map[y].name \in DOMAIN map} |->
        ResolveBinding(map, map[x])]

\* the body of one iteration of the for loop of resolve_references
ResolveRoundOp(map) == [x \in DOMAIN map |-> ResolveBinding(map, map[x])]

(***************************************************************************)
(* get_string_value and resolve_template                                   *)
(***************************************************************************)
None == [kind |-> "None", s |-> <<>>]
Some(s) == [kind |-> "Some", s |-> s]
\* the recursion of get_string_value never returns: the stack overflows
Overflow == [kind |-> "Overflow", s |-> <<>>]

\* SymbolTable::get_string_value; the recursion follows one ObjectRef per
\* call, and a walk longer than the number of bindings is on a cycle
RECURSIVE GetStringValueRec(_, _, _)
GetStringValueRec(map, name, fuel) ==
    IF name \notin DOMAIN map THEN None
    ELSE LET v == map[name]
         IN CASE v.tag = "String" -> Some(v.s)
              [] v.tag = "TemplateLiteral" -> Some(v.s)
              [] v.tag = "ObjectRef" ->
                    IF fuel = 0 THEN Overflow
                    ELSE GetStringValueRec(map, v.name, fuel - 1)
              [] OTHER -> None

GetStringValue(map, name) == GetStringValueRec(map, name, Cardinality(DOMAIN map))

\* the character class [a-zA-Z0-9_]
NameChars ==
    Uppercase \cup
    {"a", "b", "c", "d", "e", "f", "g", "h", "i", "j", "k", "l", "m",
     "n", "o", "p", "q", "r", "s", "t", "u", "v", "w", "x", "y", "z",
     "0", "1", "2", "3", "4", "5", "6", "7", "8", "9", "_"}

\* last index of the longest run of name characters that starts at i (i-1: none)
RECURSIVE NameRunEnd(_, _)
NameRunEnd(text, i) ==
    IF i <= Len(text) /\ text[i] \in NameChars THEN NameRunEnd(text, i + 1) ELSE i - 1

\* the regex \$\{([a-zA-Z0-9_]+)\} anchored at i: index of the closing brace, or 0
MatchEnd(text, i) ==
    IF i + 1 <= Len(text) /\ text[i] = "$" /\ text[i + 1] = "{"
    THEN LET e == NameRunEnd(text, i + 2)
         IN IF e >= i + 2 /\ e + 1 <= Len(text) /\ text[e + 1] = "}" THEN e + 1 ELSE 0
    ELSE 0

\* the identifier a captured group spells
RECURSIVE Join(_)
Join(chars) == IF chars = <<>> THEN "" ELSE Head(chars) \o Join(Tail(chars))

\* caps[1] of the match that starts at i and ends at e
Capture(text, i, e) == Join(SubSeq(text, i + 2, e - 1))

\* a replace_all whose closure returns nothing for a name without a string
RECURSIVE Mut_ReplaceAllDrop(_, _, _)
Mut_ReplaceAllDrop(map, text, i) ==
    IF i > Len(text) THEN [out |-> <<>>, changed |-> FALSE, overflow |-> FALSE]
    ELSE LET e == MatchEnd(text, i)
         IN IF e = 0
            THEN LET rest == Mut_ReplaceAllDrop(map, text, i + 1)
                 IN [rest EXCEPT !.out = <<text[i]>> \o rest.out]
            ELSE LET value == GetStringValue(map, Capture(text, i, e))
                     rest == Mut_ReplaceAllDrop(map, text, e + 1)
                 IN CASE value.kind = "Some" ->
                            [out |-> value.s \o rest.out, changed |-> TRUE,
                             overflow |-> rest.overflow]
                      [] value.kind = "Overflow" ->
                            [rest EXCEPT !.overflow = TRUE]
                      [] OTHER -> rest

\* a replace_all whose closure never sets `changed`
RECURSIVE Mut_ReplaceAllNoFlag(_, _, _)
Mut_ReplaceAllNoFlag(map, text, i) ==
    IF i > Len(text) THEN [out |-> <<>>, changed |-> FALSE, overflow |-> FALSE]
    ELSE LET e == MatchEnd(text, i)
         IN IF e = 0
            THEN LET rest == Mut_ReplaceAllNoFlag(map, text, i + 1)
                 IN [rest EXCEPT !.out = <<text[i]>> \o rest.out]
            ELSE LET value == GetStringValue(map, Capture(text, i, e))
                     rest == Mut_ReplaceAllNoFlag(map, text, e + 1)
                 IN CASE value.kind = "Some" ->
                            [rest EXCEPT !.out = value.s \o rest.out]
                      [] value.kind = "Overflow" ->
                            [rest EXCEPT !.overflow = TRUE]
                      [] OTHER ->
                            [rest EXCEPT !.out = SubSeq(text, i, e) \o rest.out]

\* one re.replace_all of resolve_template over text, from index i on: the
\* replaced text, whether the closure set `changed`, whether a lookup
\* overflowed; the text between two matches is copied as it is
RECURSIVE ReplaceAll(_, _, _)
ReplaceAll(map, text, i) ==
    LET starts == {s \in i..Len(text) : MatchEnd(text, s) # 0}
    IN IF starts = {}
       THEN [out |-> SubSeq(text, i, Len(text)), changed |-> FALSE, overflow |-> FALSE]
       ELSE LET s == CHOOSE x \in starts : \A y \in starts : x <= y
                e == MatchEnd(text, s)
                value == GetStringValue(map, Capture(text, s, e))
                rest == ReplaceAll(map, text, e + 1)
                copied == SubSeq(text, i, s - 1)
            IN CASE value.kind = "Some" ->
                       [out |-> copied \o value.s \o rest.out, changed |-> TRUE,
                        overflow |-> rest.overflow]
                 [] value.kind = "Overflow" ->
                       [rest EXCEPT !.out = copied \o rest.out, !.overflow = TRUE]
                 [] OTHER ->
                       [rest EXCEPT !.out = copied \o SubSeq(text, s, e) \o rest.out]

\* the names of the markers of text, in order of occurrence, from index i on
RECURSIVE Markers(_, _)
Markers(text, i) ==
    IF i > Len(text) THEN <<>>
    ELSE LET e == MatchEnd(text, i)
         IN IF e = 0 THEN Markers(text, i + 1)
            ELSE <<Capture(text, i, e)>> \o Markers(text, e + 1)

MarkerNames(text) == {Markers(text, 1)[k] : k \in 1..Len(Markers(text, 1))}

(***************************************************************************)
(* Input programs.                                                         *)
(***************************************************************************)
HelloBlock ==
    <<ExpressionStatement(AssignmentExpression(AssignmentTargetIdentifier("a"),
                                               StringLiteral(<<"h", "e", "l", "l", "o">>))),
      ExpressionStatement(AssignmentExpression(AssignmentTargetIdentifier("b"),
                                               NumericLiteral(42)))>>

\* a = "bye"; c = T(() => { b = a; }); o.p = 1; return;
NestedBlock ==
    <<ExpressionStatement(AssignmentExpression(AssignmentTargetIdentifier("a"),
                                               StringLiteral(<<"b", "y", "e">>))),
      ExpressionStatement(AssignmentExpression(AssignmentTargetIdentifier("c"),
          CallExpression(Identifier("T"),
              <<ArrowFunctionExpression(
                    <<ExpressionStatement(AssignmentExpression(
                          AssignmentTargetIdentifier("b"), Identifier("a")))>>, 2)>>))),
      ExpressionStatement(AssignmentExpression(MemberTarget, NumericLiteral(1))),
      ReturnStatement(<<>>)>>

StatementPool ==
    << \* var x = "${y}";
       Var("x", StringLiteral(<<"$", "{", "y", "}">>)),
       \* var y = "A";
       Var("y", StringLiteral(<<"A">>)),
       \* var x = "${x}";
       Var("x", StringLiteral(<<"$", "{", "x", "}">>)),
       \* var a = b;
       Var("a", Identifier("b")),
       \* var b = a;
       Var("b", Identifier("a")),
       \* var y = z;
       Var("y", Identifier("z")),
       \* var i = T(() => { a = "hello"; b = 42; });
       Var("i", CallExpression(Identifier("T"), <<ArrowFunctionExpression(HelloBlock, 1)>>)),
       \* T(() => { a = "hello"; b = 42; });
       ExpressionStatement(
           CallExpression(Identifier("T"), <<ArrowFunctionExpression(HelloBlock, 1)>>)),
       \* var j = Q(() => { a = "bye"; c = T(() => { b = a; }); o.p = 1; return; });
       Var("j", CallExpression(Identifier("Q"), <<ArrowFunctionExpression(NestedBlock, 3)>>)),
       \* function f() { return; return `B${..}`; return "C"; }
       FunctionDeclaration("f",
           <<ReturnStatement(<<>>),
             ReturnStatement(<<TemplateLiteralExpr(<<<<"B">>, <<>>>>, 1)>>),
             ReturnStatement(<<StringLiteral(<<"C">>)>>)>>),
       \* var b = 7, {p} = o, d, e = true, g = [], h = go(() => { a = "no"; }), m = T(function () {});
       VariableDeclaration(
           <<Declarator(BindingIdentifier("b"), <<NumericLiteral(7)>>),
             Declarator(ObjectPattern, <<Identifier("o")>>),
             Declarator(BindingIdentifier("d"), NoInit),
             Declarator(BindingIdentifier("e"), <<BooleanLiteral(TRUE)>>),
             Declarator(BindingIdentifier("g"), <<OtherExpression>>),
             Declarator(BindingIdentifier("h"),
                 <<CallExpression(Identifier("go"),
                       <<ArrowFunctionExpression(
                             <<ExpressionStatement(AssignmentExpression(
                                   AssignmentTargetIdentifier("a"),
                                   StringLiteral(<<"n", "o">>)))>>, 4)>>)>>),
             Declarator(BindingIdentifier("m"),
                 <<CallExpression(Identifier("T"), <<FunctionExpression(HelloBlock)>>)>>)>>),
       \* function n() { var a = "in"; }
       FunctionDeclaration("n", <<Var("a", StringLiteral(<<"i", "n">>))>>) >>

PoolSize == Len(StatementPool)

ChainNames ==
    <<"a", "b", "c", "d", "e", "f", "g", "h", "i", "j", "k", "l", "m",
      "n", "o", "p", "q", "r", "s", "t", "u", "v", "w", "x", "y", "z">>

ChainTails == {"literal", "dangling", "cycle"}

\* var a = b; var b = c; ... : n References, then the end of the chain
ChainProgram(n, tail) ==
    [i \in 1..n |-> Var(ChainNames[i], Identifier(ChainNames[i + 1]))]
    \o (CASE tail = "literal" -> <<Var(ChainNames[n + 1], StringLiteral(<<"A">>))>>
          [] tail = "cycle" -> <<Var(ChainNames[n + 1], Identifier(ChainNames[1]))>>
          [] OTHER -> <<>>)

Templates ==
    << <<"$", "{", "x", "}">>,
       <<"$", "{", "a", "}">>,
       <<"-", "$", "{", "x", "}", "$", "{", "q", "}">>,
       <<"h", "i">>,
       <<"$", "{", "$", "{", "y", "}", "}">>,
       <<"$", "{", ".", ".", ".", "}", "$", "x", "{", "y", "}">>,
       <<"$", "{", "f", "}", "$", "{", "b", "}", " ", "$", "{", "i", "}">> >>

(***************************************************************************)
(* The symbol table: SymbolTable::new builds it, then callers resolve       *)
(* templates against it.                                                   *)
(***************************************************************************)
TemplateIdle ==
    /\ template = <<>>
    /\ result = <<>>
    /\ passes = 0
    /\ calls = 0
    /\ first_result = <<>>

SchemaIdle ==
    /\ schema_call = <<>>
    /\ schema_result = <<>>

DedupIdle ==
    /\ prompts = <<>>
    /\ dedup_idx = 1
    /\ seen_content = <<>>
    /\ dedup_result = <<>>

ToolsIdle ==
    /\ objects = <<>>
    /\ captures = <<>>
    /\ tool_idx = 1
    /\ tools = <<>>
    /\ beautified_code = <<>>
    /\ with_ast = FALSE

EnrichIdle ==
    /\ enhanced_prompts = <<>>
    /\ base_tools = <<>>
    /\ enrich_idx = 1
    /\ replaced = <<>>

TextIdle ==
    /\ cand_text = <<>>
    /\ cand_tool = <<>>
    /\ verdict = <<>>

AssembleIdle ==
    /\ string_literals = <<>>
    /\ lit_idx = 1
    /\ basic_prompts = <<>>
    /\ prompts_with_tools = <<>>
    /\ merge_idx = 1
    /\ used_indices = {}
    /\ merged_prompts = <<>>

Init ==
    /\ pc = "pass1"
    /\ \/ \E n \in 0..MaxStmts : \E idx \in [1..n -> 1..PoolSize] :
              program = [i \in 1..n |-> StatementPool[idx[i]]]
       \/ \E n \in 0..MaxChain : \E tail \in ChainTails :
              program = ChainProgram(n, tail)
    /\ stmt_idx = 1
    /\ symbols = EmptyMap
    /\ lazy_blocks = <<>>
    /\ symbols0 = EmptyMap
    /\ rounds = 0
    /\ last_changed = FALSE
    /\ TemplateIdle
    /\ SchemaIdle
    /\ DedupIdle
    /\ ToolsIdle
    /\ EnrichIdle
    /\ TextIdle
    /\ AssembleIdle

\* one iteration of pass 1 of SymbolTable::build
VisitStatement ==
    /\ pc = "pass1"
    /\ stmt_idx <= Len(program)
    /\ LET st == VisitStatementOp([symbols |-> symbols, lazy_blocks |-> lazy_blocks],
                                  program[stmt_idx])
       IN /\ symbols' = st.symbols
          /\ lazy_blocks' = st.lazy_blocks
    /\ stmt_idx' = stmt_idx + 1
    /\ UNCHANGED <<pc, program, symbols0, rounds, last_changed, tmplvars, extvars>>

\* pass 2 of SymbolTable::build
ProcessLazyInitBlocks ==
    /\ pc = "pass1"
    /\ stmt_idx > Len(program)
    /\ symbols' = MergeBlocks(symbols, lazy_blocks, 1)
    /\ symbols0' = symbols'
    /\ pc' = "pass3"
    /\ UNCHANGED <<program, stmt_idx, lazy_blocks, rounds, last_changed, tmplvars, extvars>>

\* one iteration of the loop of resolve_references (pass 3)
ResolveRound ==
    /\ pc = "pass3"
    /\ LET new == ResolveRoundOp(symbols)
           changed == new # symbols
       IN /\ symbols' = new
          /\ last_changed' = changed
          /\ rounds' = rounds + 1
          /\ pc' = IF ~changed \/ rounds + 1 = max_iterations THEN "built" ELSE "pass3"
    /\ UNCHANGED <<program, stmt_idx, lazy_blocks, symbols0, tmplvars, extvars>>

\* a caller enters resolve_template
ResolveTemplate ==
    /\ pc = "built"
    /\ calls = 0
    /\ \E t \in 1..Len(Templates) :
          /\ template' = Templates[t]
          /\ result' = Templates[t]
    /\ passes' = 0
    /\ calls' = 1
    /\ pc' = "template"
    /\ UNCHANGED <<symvars, first_result, extvars>>

\* one iteration of the loop of resolve_template
TemplatePass ==
    /\ pc = "template"
    /\ passes < MaxPasses
    /\ LET r == ReplaceAll(symbols, result, 1)
       IN IF r.overflow
          THEN /\ pc' = "aborted"
               /\ UNCHANGED <<result, passes, first_result>>
          ELSE /\ result' = r.out
               /\ passes' = passes + 1
               /\ pc' = IF r.changed THEN "template" ELSE "returned"
               /\ first_result' = IF ~r.changed /\ calls = 1 THEN r.out ELSE first_result
    /\ UNCHANGED <<symvars, template, calls, extvars>>

\* the caller resolves the text it got back once more
ResolveTemplateAgain ==
    /\ pc = "returned"
    /\ calls = 1
    /\ template' = result
    /\ passes' = 0
    /\ calls' = 2
    /\ pc' = "template"
    /\ UNCHANGED <<symvars, result, first_result, extvars>>

Next ==
    \/ VisitStatement
    \/ ProcessLazyInitBlocks
    \/ ResolveRound
    \/ ResolveTemplate
    \/ TemplatePass
    \/ ResolveTemplateAgain

Spec == Init /\ [][Next]_vars

(***************************************************************************)
(* Reference chains of an environment.                                     *)
(***************************************************************************)
\* number of References followed from name up to a binding that holds a
\* non-Reference value; -1 when the walk reaches an unbound name or a cycle
RECURSIVE RefDepth(_, _, _)
RefDepth(map, name, fuel) ==
    IF name \notin DOMAIN map THEN -1
    ELSE IF ~IsObjectRef(map[name]) THEN 0
    ELSE IF fuel = 0 THEN -1
    ELSE LET d == RefDepth(map, map[name].name, fuel - 1)
         IN IF d = -1 THEN -1 ELSE d + 1

ChainDepth(map, name) == RefDepth(map, name, Cardinality(DOMAIN map))

\* the value at the end of the chain of a name with ChainDepth >= 0
RECURSIVE ChainValue(_, _)
ChainValue(map, name) ==
    IF IsObjectRef(map[name]) THEN ChainValue(map, map[name].name) ELSE map[name]

Resolved == pc \notin {"pass1", "pass3"}

(***************************************************************************)
(* C1                                                                      *)
(***************************************************************************)
\* C1 as stated: resolve_references runs at most 10 rounds, and afterwards
\* every binding on an acyclic Reference chain that ends in a value holds a
\* non-Reference value, however long the chain.
C1_AnyChainResolved ==
    /\ rounds <= 10
    /\ Resolved =>
          \A n \in DOMAIN symbols0 :
              ChainDepth(symbols0, n) >= 1 => ~IsObjectRef(symbols[n])

\* C1 amended: resolve_references runs at most 10 rounds, and afterwards
\* every binding from which at most 10 References lead to a binding with a
\* non-Reference value holds that value.
C1_ShortChainResolved ==
    /\ rounds <= 10
    /\ Resolved =>
          \A n \in DOMAIN symbols0 :
              ChainDepth(symbols0, n) \in 1..10 =>
                  /\ ~IsObjectRef(symbols[n])
                  /\ symbols[n] = ChainValue(symbols0, n)

\* a chain of exactly 10 References has been resolved, in 10 rounds
C1_Witness ==
    /\ pc = "built"
    /\ rounds = 10
    /\ \E n \in DOMAIN symbols0 :
          ChainDepth(symbols0, n) = 10 /\ ~IsObjectRef(symbols[n])

(***************************************************************************)
(* C2                                                                      *)
(***************************************************************************)
\* C2: a resolve_template call performs at most 10 substitution passes,
\* whatever the bound strings contain.
C2_AtMostTenPasses == passes <= 10

(***************************************************************************)
(* C3                                                                      *)
(***************************************************************************)
TwoCycle(map, a, b) ==
    /\ a # b
    /\ a \in DOMAIN map
    /\ b \in DOMAIN map
    /\ map[a] = SymObjectRef(b)
    /\ map[b] = SymObjectRef(a)

OnlyTwoCycles(map) ==
    \A n \in DOMAIN map :
        IsObjectRef(map[n]) => \E m \in DOMAIN map : TwoCycle(map, n, m)

\* C3: the two bindings of a 2-cycle keep their References through
\* resolution, and when the References of the environment are 2-cycles only,
\* resolution ends after exactly one round, which changes nothing.
C3_TwoCycleKept ==
    /\ \A a, b \in DOMAIN symbols0 :
          TwoCycle(symbols0, a, b) =>
              symbols[a] = SymObjectRef(b) /\ symbols[b] = SymObjectRef(a)
    /\ (Resolved /\ OnlyTwoCycles(symbols0)) =>
          rounds = 1 /\ ~last_changed /\ symbols = symbols0

\* resolution has ended on an environment with a 2-cycle
C3_Witness ==
    /\ pc = "built"
    /\ rounds = 1
    /\ OnlyTwoCycles(symbols0)
    /\ \E a, b \in DOMAIN symbols0 : TwoCycle(symbols0, a, b)

(***************************************************************************)
(* C4                                                                      *)
(***************************************************************************)
\* the text with each marker bound to a String or TemplateLiteral replaced
\* by that value, once, and every other marker kept
RECURSIVE DirectSubstitution(_, _, _)
DirectSubstitution(map, text, i) ==
    IF i > Len(text) THEN <<>>
    ELSE LET e == MatchEnd(text, i)
         IN IF e = 0 THEN <<text[i]>> \o DirectSubstitution(map, text, i + 1)
            ELSE LET name == Capture(text, i, e)
                     bound == name \in DOMAIN map
                              /\ map[name].tag \in {"String", "TemplateLiteral"}
                 IN (IF bound THEN map[name].s ELSE SubSeq(text, i, e))
                    \o DirectSubstitution(map, text, e + 1)

Unresolvable(map, text) ==
    \A n \in MarkerNames(text) : GetStringValue(map, n).kind = "None"

FirstReturned == pc = "returned" /\ calls = 1

C5_Idempotent ==
    (pc = "returned" /\ calls = 2) => result = first_result /\ passes = 1

\* the second call has returned, on text the first call had changed in more
\* than one pass and that still holds a marker
C5_Witness ==
    /\ pc = "returned"
    /\ calls = 2
    /\ MarkerNames(result) # {}
    /\ \E n \in DOMAIN symbols : symbols[n].tag = "String" /\ MarkerNames(symbols[n].s) # {}

(***************************************************************************)
(* C6                                                                      *)
(***************************************************************************)
Hello == SymString(<<"h", "e", "l", "l", "o">>)

HelloCall == CallExpression(Identifier("T"), <<ArrowFunctionExpression(HelloBlock, 1)>>)

\* the statement is or declares the call T(() => { a = "hello"; b = 42; })
ContainsHelloCall(stmt) ==
    \/ stmt = ExpressionStatement(HelloCall)
    \/ stmt = Var("i", HelloCall)

HasHello ==
    /\ "a" \in DOMAIN symbols /\ symbols["a"] = Hello
    /\ "b" \in DOMAIN symbols /\ symbols["b"] = SymNumber(42)

\* the names a statement's delayed-init blocks assign
HarvestedNames(stmt) ==
    LET blocks == VisitStatementOp([symbols |-> EmptyMap, lazy_blocks |-> <<>>], stmt).lazy_blocks
    IN UNION {{blocks[k].assignments[j][1] : j \in 1..Len(blocks[k].assignments)} :
                 k \in 1..Len(blocks)}

StaticMemberExpression(object, property) ==
    [kind |-> "StaticMemberExpression", object |-> object, property |-> property]
ObjectExpression(properties) == [kind |-> "ObjectExpression", properties |-> properties]
ObjectProperty(key, value) ==
    [kind |-> "ObjectProperty", key |-> key, value |-> value, method |-> FALSE]
MethodProperty(key) ==
    [kind |-> "ObjectProperty", key |-> key, value |-> FunctionExpression(<<>>),
     method |-> TRUE]
SpreadProperty(argument) == [kind |-> "SpreadProperty", argument |-> argument]
StaticIdentifierKey(name) == [kind |-> "StaticIdentifier", name |-> name]
StringLiteralKey(chars) == [kind |-> "StringLiteral", value |-> chars]
NumericKey == [kind |-> "NumericLiteral", value |-> 1]

EmptyJson == [x \in {} |-> ""]

\* SymbolTable::get_schema
GetSchema(map, name) ==
    IF name \in DOMAIN map /\ map[name].tag = "Schema" THEN map[name].schema ELSE <<>>

BuilderMethods == {"object", "strictObject", "array", "string", "number", "boolean", "enum"}

\* SchemaExtractor::is_schema_builder_call
IsSchemaBuilderCall(call) ==
    /\ call.callee.kind = "StaticMemberExpression"
    /\ call.callee.object.kind = "Identifier"
    /\ call.callee.object.name = "k"
    /\ call.callee.property \in BuilderMethods

\* SchemaExtractor::extract_key
ExtractKey(key) ==
    CASE key.kind = "StaticIdentifier" -> <<key.name>>
      [] key.kind = "StringLiteral" -> <<Join(key.value)>>
      [] OTHER -> <<>>

\* SchemaExtractor::is_describe_call
IsDescribeCall(call) ==
    call.callee.kind = "StaticMemberExpression" /\ call.callee.property = "describe"

\* SchemaExtractor::extract_describe_arg
ExtractDescribeArg(call) ==
    IF Len(call.arguments) = 0 THEN <<>>
    ELSE IF call.arguments[1].kind = "StringLiteral"
         THEN <<Join(call.arguments[1].value)>>
         ELSE <<>>

\* SchemaExtractor::type_name_to_schema
TypeNameToSchema(type_name) ==
    CASE type_name = "string" -> Insert(EmptyJson, "type", "string")
      [] type_name = "number" -> Insert(EmptyJson, "type", "number")
      [] type_name = "boolean" -> Insert(EmptyJson, "type", "boolean")
      [] type_name \in {"object", "strictObject"} -> Insert(EmptyJson, "type", "object")
      [] type_name = "array" -> Insert(EmptyJson, "type", "array")
      [] OTHER -> EmptyJson

\* SchemaExtractor::parse_type_from_member
ParseTypeFromMember(member) ==
    IF member.object.kind = "Identifier" /\ member.object.name = "k"
    THEN <<TypeNameToSchema(member.property)>>
    ELSE <<>>

RECURSIVE ParseSchemaBuilderCall(_, _), ParseObjectSchema(_, _), ParseObjectProps(_, _, _, _, _),
          ParseSchemaValue(_, _), ParseTypeCall(_, _), ExtractBaseSchemaType(_, _)

\* SchemaExtractor::parse_type_call
ParseTypeCall(map, call) ==
    IF /\ call.callee.kind = "StaticMemberExpression"
       /\ call.callee.object.kind = "Identifier"
       /\ call.callee.object.name = "k"
    THEN <<TypeNameToSchema(call.callee.property)>>
    ELSE IF IsSchemaBuilderCall(call) THEN ParseSchemaBuilderCall(map, call) ELSE <<>>

\* SchemaExtractor::extract_base_schema_type
ExtractBaseSchemaType(map, expr) ==
    CASE expr.kind = "StaticMemberExpression" -> ParseTypeFromMember(expr)
      [] expr.kind = "CallExpression" -> ParseTypeCall(map, expr)
      [] OTHER -> <<>>

\* SchemaExtractor::parse_schema_value
ParseSchemaValue(map, expr) ==
    CASE expr.kind = "CallExpression" ->
            IF IsDescribeCall(expr)
            THEN LET description == ExtractDescribeArg(expr)
                 IN IF Len(description) = 0 THEN <<>>
                    ELSE LET base_type == ExtractBaseSchemaType(map, expr.callee)
                         IN IF Len(base_type) = 0 THEN <<>>
                            ELSE <<Insert(base_type[1], "description", description[1])>>
            ELSE ParseTypeCall(map, expr)
      [] expr.kind = "Identifier" -> GetSchema(map, expr.name)
      [] OTHER -> <<>>

\* a loop that marks a property required only when its schema is described
RECURSIVE Mut_ParseObjectProps(_, _, _, _, _)
Mut_ParseObjectProps(map, props, i, properties, required) ==
    IF i > Len(props) THEN <<[properties |-> properties, required |-> required]>>
    ELSE IF props[i].kind # "ObjectProperty"
         THEN Mut_ParseObjectProps(map, props, i + 1, properties, required)
         ELSE LET key == ExtractKey(props[i].key)
              IN IF Len(key) = 0 THEN <<>>
                 ELSE LET value == ParseSchemaValue(map, props[i].value)
                      IN IF Len(value) = 0 THEN <<>>
                         ELSE Mut_ParseObjectProps(map, props, i + 1,
                                  Insert(properties, key[1], value[1]),
                                  IF "description" \in DOMAIN value[1]
                                  THEN Append(required, key[1]) ELSE required)

\* a loop that leaves out a property it cannot read and goes on
RECURSIVE Mut_ParseObjectSkip(_, _, _, _, _)
Mut_ParseObjectSkip(map, props, i, properties, required) ==
    IF i > Len(props) THEN <<[properties |-> properties, required |-> required]>>
    ELSE IF props[i].kind # "ObjectProperty"
         THEN Mut_ParseObjectSkip(map, props, i + 1, properties, required)
         ELSE LET key == ExtractKey(props[i].key)
              IN IF Len(key) = 0
                 THEN Mut_ParseObjectSkip(map, props, i + 1, properties, required)
                 ELSE LET value == ParseSchemaValue(map, props[i].value)
                      IN IF Len(value) = 0
                         THEN Mut_ParseObjectSkip(map, props, i + 1, properties, required)
                         ELSE Mut_ParseObjectSkip(map, props, i + 1,
                                  Insert(properties, key[1], value[1]),
                                  Append(required, key[1]))

\* the loop of parse_object_schema, from property i on
ParseObjectProps(map, props, i, properties, required) ==
    IF i > Len(props) THEN <<[properties |-> properties, required |-> required]>>
    ELSE IF props[i].kind # "ObjectProperty"
         THEN ParseObjectProps(map, props, i + 1, properties, required)
         ELSE LET key == ExtractKey(props[i].key)
              IN IF Len(key) = 0 THEN <<>>
                 ELSE LET value == ParseSchemaValue(map, props[i].value)
                      IN IF Len(value) = 0 THEN <<>>
                         ELSE ParseObjectProps(map, props, i + 1,
                                  Insert(properties, key[1], value[1]),
                                  Append(required, key[1]))

\* SchemaExtractor::parse_object_schema
ParseObjectSchema(map, obj_expr) ==
    LET r == ParseObjectProps(map, obj_expr.properties, 1, EmptyJson, <<>>)
    IN IF Len(r) = 0 THEN <<>>
       ELSE LET schema == Insert(Insert(EmptyJson, "type", "object"),
                                 "properties", r[1].properties)
            IN IF r[1].required # <<>>
               THEN <<Insert(schema, "required", r[1].required)>>
               ELSE <<schema>>

\* SchemaExtractor::parse_schema_builder_call
ParseSchemaBuilderCall(map, call) ==
    IF ~IsSchemaBuilderCall(call) THEN <<>>
    ELSE IF Len(call.arguments) = 0 THEN <<>>
    ELSE IF call.arguments[1].kind = "ObjectExpression"
         THEN ParseObjectSchema(map, call.arguments[1])
         ELSE <<>>

K(method) == StaticMemberExpression(Identifier("k"), method)
KCall(method) == CallExpression(K(method), <<>>)
Describe(receiver, arguments) ==
    CallExpression(StaticMemberExpression(receiver, "describe"), arguments)

MaxProps == 2   \* properties of the object literal of a builder call

PropertyPool ==
    << \* name: k.string().describe("id")
       ObjectProperty(StaticIdentifierKey("name"),
                      Describe(KCall("string"), <<StringLiteral(<<"i", "d">>)>>)),
       \* name: k.string()
       ObjectProperty(StaticIdentifierKey("name"), KCall("string")),
       \* "age": k.number()
       ObjectProperty(StringLiteralKey(<<"a", "g", "e">>), KCall("number")),
       \* name: k.number()
       ObjectProperty(StaticIdentifierKey("name"), KCall("number")),
       \* [1]: k.string()
       ObjectProperty(NumericKey, KCall("string")),
       \* tags: k.array(k.string())
       ObjectProperty(StaticIdentifierKey("tags"),
                      CallExpression(K("array"), <<KCall("string")>>)),
       \* note: k.describe("x")
       ObjectProperty(StaticIdentifierKey("note"),
                      Describe(Identifier("k"), <<StringLiteral(<<"x">>)>>)),
       \* ref: s
       ObjectProperty(StaticIdentifierKey("ref"), Identifier("s")),
       \* ...rest
       SpreadProperty(Identifier("rest")),
       \* sub: k.object({ name: k.string() })
       ObjectProperty(StaticIdentifierKey("sub"),
           CallExpression(K("object"),
               <<ObjectExpression(
                     <<ObjectProperty(StaticIdentifierKey("name"), KCall("string"))>>)>>)),
       \* bad: "text"
       ObjectProperty(StaticIdentifierKey("bad"), StringLiteral(<<"t", "e", "x", "t">>)),
       \* d: k.string().describe(x)
       ObjectProperty(StaticIdentifierKey("d"), Describe(KCall("string"), <<Identifier("x")>>)),
       \* e: k.enum()
       ObjectProperty(StaticIdentifierKey("e"), KCall("enum")),
       \* m: z.string()
       ObjectProperty(StaticIdentifierKey("m"),
                      CallExpression(StaticMemberExpression(Identifier("z"), "string"), <<>>)) >>

\* the call expressions handed to the extractor, around an object literal
CallShapes(obj) ==
    << CallExpression(K("object"), <<obj>>),
       CallExpression(K("strictObject"), <<obj>>),
       CallExpression(K("string"), <<obj>>),
       CallExpression(StaticMemberExpression(Identifier("z"), "object"), <<obj>>),
       CallExpression(K("describe"), <<obj>>),
       CallExpression(Identifier("object"), <<obj>>),
       CallExpression(K("object"), <<>>),
       CallExpression(K("object"), <<StringLiteral(<<"o">>), obj>>) >>

\* var s = k.object({ name: k.string() });
EarlierSchema ==
    Var("s", CallExpression(K("object"),
                 <<ObjectExpression(
                       <<ObjectProperty(StaticIdentifierKey("name"), KCall("string"))>>)>>))

\* the tables SymbolTable::new builds for the empty program and for the
\* program that declares the schema s
SchemaTables ==
    <<EmptyMap,
      ResolveRoundOp(VisitStatementOp([symbols |-> EmptyMap, lazy_blocks |-> <<>>],
                                      EarlierSchema).symbols)>>

SymbolTableIdle ==
    /\ program = <<>>
    /\ stmt_idx = 1
    /\ lazy_blocks = <<>>
    /\ symbols0 = EmptyMap
    /\ rounds = 0
    /\ last_changed = FALSE

InitSchema ==
    /\ pc = "schema"
    /\ \E n \in 0..MaxProps : \E idx \in [1..n -> 1..Len(PropertyPool)] :
          \E shape \in 1..Len(CallShapes(<<>>)) :
              schema_call =
                  CallShapes(ObjectExpression([i \in 1..n |-> PropertyPool[idx[i]]]))[shape]
    /\ schema_result = <<>>
    /\ \E t \in 1..Len(SchemaTables) : symbols = SchemaTables[t]
    /\ SymbolTableIdle
    /\ TemplateIdle
    /\ DedupIdle
    /\ ToolsIdle
    /\ EnrichIdle
    /\ TextIdle
    /\ AssembleIdle

\* a caller runs parse_schema_builder_call on the call
ParseSchema ==
    /\ pc = "schema"
    /\ schema_result' = ParseSchemaBuilderCall(symbols, schema_call)
    /\ pc' = "schema_done"
    /\ UNCHANGED <<symvars, tmplvars, schema_call, dedupvars, toolvars, enrichvars, textvars,
                   assemblevars>>

NextSchema == ParseSchema

SpecSchema == InitSchema /\ [][NextSchema]_vars

(***************************************************************************)
(* C7                                                                      *)
(***************************************************************************)
\* k.object({ name: k.string().describe("id") })
DescribedNameCall ==
    CallExpression(K("object"),
        <<ObjectExpression(
              <<ObjectProperty(StaticIdentifierKey("name"),
                    Describe(KCall("string"), <<StringLiteral(<<"i", "d">>)>>))>>)>>)

DescribedNameTree ==
    [type |-> "object",
     properties |-> [name |-> [type |-> "string", description |-> "id"]],
     required |-> <<"name">>]

\* C7: for k.object({ name: k.string().describe("id") }) schema recovery
\* yields {type:"object", properties:{name:{type:"string",
\* description:"id"}}, required:["name"]}.
C7_DescribedProperty ==
    (pc = "schema_done" /\ schema_call = DescribedNameCall)
        => schema_result = <<DescribedNameTree>>

(***************************************************************************)
(* C8                                                                      *)
(***************************************************************************)
RequiredOf(tree) ==
    IF "required" \in DOMAIN tree
    THEN {tree["required"][i] : i \in 1..Len(tree["required"])}
    ELSE {}

\* C8: in every tree parse_object_schema produces, the names listed in
\* required are exactly the keys of properties.
C8_RequiredIsProperties ==
    (pc = "schema_done" /\ Len(schema_result) = 1)
        => RequiredOf(schema_result[1]) = DOMAIN schema_result[1]["properties"]

\* a tree with two properties, one of them described, has been produced
C8_Witness ==
    /\ pc = "schema_done"
    /\ Len(schema_result) = 1
    /\ Cardinality(DOMAIN schema_result[1]["properties"]) = 2
    /\ \E key \in DOMAIN schema_result[1]["properties"] :
          "description" \in DOMAIN schema_result[1]["properties"][key]
    /\ \E key \in DOMAIN schema_result[1]["properties"] :
          "description" \notin DOMAIN schema_result[1]["properties"][key]

(***************************************************************************)
(* extractor/prompts_enhanced.rs: EnhancedPromptExtractor::deduplicate.    *)
(* A prompt is [id, content]; content is a text.                           *)
(***************************************************************************)
KeyLen == 100

\* UTF-8 width of a character of the texts of this model
Utf8Len(c) == IF c = "é" THEN 2 ELSE 1

\* str::len: the length of a text in bytes
ByteLen(content) ==
    Len(content) + Cardinality({i \in 1..Len(content) : Utf8Len(content[i]) = 2})

\* content.chars().take(100).collect()
DedupKey(content) ==
    SubSeq(content, 1, IF Len(content) < KeyLen THEN Len(content) ELSE KeyLen)

\* a replacement test that also lets an equally long later prompt win
Mut_KeepLonger(prompt, existing) == ByteLen(prompt.content) >= ByteLen(existing.content)

\* the test of `if prompt.content.len() > result[existing_idx].content.len()`
KeepLonger(prompt, existing) == ByteLen(prompt.content) > ByteLen(existing.content)

MaxDocs == 3   \* prompts handed to deduplicate

Repeat(c, n) == [i \in 1..n |-> c]

ContentPool ==
    << Repeat("a", 100),
       Repeat("a", 100) \o <<"x">>,
       Repeat("a", 100) \o <<"y">>,
       Repeat("a", 100) \o <<"x", "y">>,
       Repeat("a", 100) \o <<"é">>,
       Repeat("a", 99) \o <<"x">>,
       Repeat("a", 99) \o <<"x", "y">>,
       Repeat("a", 99) \o <<"é">>,
       Repeat("a", 99) \o <<"é", "x">>,
       <<"b">>,
       <<>> >>

InitDedup ==
    /\ pc = "dedup"
    /\ \E n \in 0..MaxDocs : \E idx \in [1..n -> 1..Len(ContentPool)] :
          prompts = [i \in 1..n |-> [id |-> i, content |-> ContentPool[idx[i]]]]
    /\ dedup_idx = 1
    /\ seen_content = <<>>
    /\ dedup_result = <<>>
    /\ symbols = EmptyMap
    /\ SymbolTableIdle
    /\ TemplateIdle
    /\ SchemaIdle
    /\ ToolsIdle
    /\ EnrichIdle
    /\ TextIdle
    /\ AssembleIdle

\* one iteration of the loop of deduplicate
DeduplicateStep ==
    /\ pc = "dedup"
    /\ dedup_idx <= Len(prompts)
    /\ LET prompt == prompts[dedup_idx]
           key == DedupKey(prompt.content)
       IN IF key \in DOMAIN seen_content
          THEN LET existing_idx == seen_content[key]
               IN /\ dedup_result' =
                        IF KeepLonger(prompt, dedup_result[existing_idx + 1])
                        THEN [dedup_result EXCEPT ![existing_idx + 1] = prompt]
                        ELSE dedup_result
                  /\ UNCHANGED seen_content
          ELSE /\ seen_content' =
                     [k \in DOMAIN seen_content \cup {key} |->
                         IF k = key THEN Len(dedup_result) ELSE seen_content[k]]
               /\ dedup_result' = Append(dedup_result, prompt)
    /\ dedup_idx' = dedup_idx + 1
    /\ UNCHANGED <<pc, symvars, tmplvars, schemavars, toolvars, enrichvars, textvars,
                   assemblevars, prompts>>

\* the loop is over: deduplicate returns result
DeduplicateReturn ==
    /\ pc = "dedup"
    /\ dedup_idx > Len(prompts)
    /\ pc' = "dedup_done"
    /\ UNCHANGED <<symvars, tmplvars, extvars>>

NextDedup == DeduplicateStep \/ DeduplicateReturn

SpecDedup == InitDedup /\ [][NextDedup]_vars

(***************************************************************************)
(* C9                                                                      *)
(***************************************************************************)
SameKey(i, j) == DedupKey(prompts[i].content) = DedupKey(prompts[j].content)

\* the first prompt that carries the key of prompt i
FirstOccurrence(i) == CHOOSE j \in 1..i : SameKey(i, j) /\ \A h \in 1..(j - 1) : ~SameKey(i, h)

\* the length of a text in the unit "bytes" or "characters"
Size(content, unit) == IF unit = "bytes" THEN ByteLen(content) ELSE Len(content)

\* the prompt kept for the key of prompt i when length is measured in unit:
\* the earliest of the longest
Kept(i, unit) ==
    CHOOSE j \in 1..Len(prompts) :
        /\ SameKey(i, j)
        /\ \A h \in 1..Len(prompts) :
              SameKey(i, h) =>
                  \/ Size(prompts[h].content, unit) < Size(prompts[j].content, unit)
                  \/ /\ Size(prompts[h].content, unit) = Size(prompts[j].content, unit)
                     /\ j <= h

\* the keys' first occurrences, in input order
FirstOccurrences == {i \in 1..Len(prompts) : FirstOccurrence(i) = i}

Deduplicated(unit) ==
    /\ Len(dedup_result) = Cardinality(FirstOccurrences)
    /\ \A i \in FirstOccurrences :
          dedup_result[Cardinality({h \in FirstOccurrences : h <= i})] = prompts[Kept(i, unit)]

\* C9 as stated, length read as the number of characters (the unit of the
\* key): one prompt per first-100-character key, the longest of the key's
\* prompts (the earliest of them on a tie), at the position of the key's first
\* occurrence, the keys in first-seen order.
C9_LongestInCharacters == pc = "dedup_done" => Deduplicated("characters")

\* C9: deduplicate leaves one prompt per first-100-character key, namely the
\* key's prompt of greatest length in bytes (the earliest of them on a tie),
\* at the position of the key's first occurrence, the keys in first-seen
\* order.
C9_LongestInBytes == pc = "dedup_done" => Deduplicated("bytes")

\* three prompts, the first two with one key and the second the longer one,
\* the third with another key: the second and the third are left
C9_Witness ==
    /\ pc = "dedup_done"
    /\ Len(prompts) = 3
    /\ SameKey(1, 2) /\ ~SameKey(1, 3)
    /\ Len(prompts[1].content) > KeyLen
    /\ ByteLen(prompts[2].content) > ByteLen(prompts[1].content)
    /\ dedup_result = <<prompts[2], prompts[3]>>

(***************************************************************************)
(* Tool records.  analyzer/mod.rs: ObjectCollector; extractor/tools.rs:    *)
(* ToolExtractor (AST objects); extractor/beautified_tools.rs:             *)
(* BeautifiedToolExtractor (regenerated text).  A confidence is counted in *)
(* tenths: 3 stands for the f32 0.3, 10 for 1.0.                           *)
(***************************************************************************)
ToolDefinition(name, description, parameters, properties, confidence) ==
    [name |-> name, description |-> description, parameters |-> parameters,
     properties |-> properties, confidence |-> confidence]

\* the PropertyInfo that ObjectCollector::visit_expression builds for a property
PropertyInfo(p) ==
    [key |-> ExtractKey(p.key),
     is_method |-> p.method,
     string_value |-> IF p.value.kind = "StringLiteral" THEN <<Join(p.value.value)>> ELSE <<>>,
     identifier_value |-> IF p.value.kind = "Identifier" THEN <<p.value.name>> ELSE <<>>]

IsObjectProperty(p) == p.kind = "ObjectProperty"

\* the ObjectExpressionInfo that ObjectCollector::visit_expression builds
ObjectExpressionInfo(obj) ==
    LET own == SelectSeq(obj.properties, IsObjectProperty)
    IN [property_count |-> Len(own),
        properties |-> [i \in 1..Len(own) |-> PropertyInfo(own[i])],
        ast_object |-> obj]

RECURSIVE ExpressionToJson(_), ObjectToJson(_, _, _)

\* the loop over the properties of an object in expression_to_json
ObjectToJson(props, i, map) ==
    IF i > Len(props) THEN map
    ELSE IF props[i].kind # "ObjectProperty" THEN ObjectToJson(props, i + 1, map)
    ELSE LET key == ExtractKey(props[i].key)
         IN IF Len(key) = 0 THEN ObjectToJson(props, i + 1, map)
            ELSE LET value == ExpressionToJson(props[i].value)
                 IN IF Len(value) = 0 THEN ObjectToJson(props, i + 1, map)
                    ELSE ObjectToJson(props, i + 1, Insert(map, key[1], value[1]))

\* ToolExtractor::expression_to_json (the objects of this model hold no
\* array and no null literal)
ExpressionToJson(expr) ==
    CASE expr.kind = "ObjectExpression" -> <<ObjectToJson(expr.properties, 1, EmptyJson)>>
      [] expr.kind = "StringLiteral" -> <<Join(expr.value)>>
      [] expr.kind = "NumericLiteral" -> <<expr.value>>
      [] expr.kind = "BooleanLiteral" -> <<expr.value>>
      [] OTHER -> <<>>

ParameterKeys == {"parameters", "input_schema", "inputJSONSchema", "schema"}

RECURSIVE ParametersFrom(_, _)
\* the loop of extract_parameters_json, from property i on
ParametersFrom(props, i) ==
    IF i > Len(props) THEN <<>>
    ELSE IF props[i].kind # "ObjectProperty" THEN ParametersFrom(props, i + 1)
    ELSE LET key == ExtractKey(props[i].key)
         IN IF Len(key) = 0 THEN ParametersFrom(props, i + 1)
            ELSE IF key[1] \in ParameterKeys THEN ExpressionToJson(props[i].value)
            ELSE ParametersFrom(props, i + 1)

\* ToolExtractor::extract_parameters_json
ExtractParametersJson(obj) == ParametersFrom(obj.ast_object.properties, 1)

SchemaKeys == {"inputSchema", "input_schema", "outputSchema", "output_schema"}

IsKey(p, key) == Len(p.key) = 1 /\ p.key[1] = key

\* the weights try_extract_tool adds up, in tenths
NameWeight == 3
DescriptionWeight == 4
SchemaWeight == 3
CallWeight == 2
PermissionsWeight == 1
MinConfidence == 6

\* ToolExtractor::try_extract_tool
TryExtractTool(obj) ==
    LET IsName(p) == IsKey(p, "name")
        IsAsyncDescription(p) == IsKey(p, "description") /\ p.is_method
        IsSchema(p) == Len(p.key) = 1 /\ p.key[1] \in SchemaKeys
        IsCall(p) == IsKey(p, "call") /\ p.is_method
        IsCheckPermissions(p) == IsKey(p, "checkPermissions") /\ p.is_method
        props == obj.properties
        has_name == \E i \in 1..Len(props) : IsName(props[i])
        has_async_description == \E i \in 1..Len(props) : IsAsyncDescription(props[i])
        has_input_schema == \E i \in 1..Len(props) : IsSchema(props[i])
        has_call_method == \E i \in 1..Len(props) : IsCall(props[i])
        has_check_permissions == \E i \in 1..Len(props) : IsCheckPermissions(props[i])
        confidence ==
            (IF has_name THEN NameWeight ELSE 0)
            + (IF has_async_description THEN DescriptionWeight ELSE 0)
            + (IF has_input_schema THEN SchemaWeight ELSE 0)
            + (IF has_call_method THEN CallWeight ELSE 0)
            + (IF has_check_permissions THEN PermissionsWeight ELSE 0)
        keyed == SelectSeq(obj.properties, LAMBDA p : Len(p.key) = 1)
        properties == [i \in 1..Len(keyed) |-> keyed[i].key[1]]
        name_prop == SelectSeq(obj.properties, IsName)[1]
        name == IF Len(name_prop.string_value) = 1 THEN name_prop.string_value[1]
                ELSE IF Len(name_prop.identifier_value) = 1 THEN name_prop.identifier_value[1]
                ELSE "UnknownTool"
        description ==
            IF has_async_description
            THEN name \o " tool (see system prompts for full description)"
            ELSE "No description available"
    IN IF ~has_name \/ (~has_async_description /\ ~has_input_schema) THEN <<>>
       ELSE IF confidence < MinConfidence THEN <<>>
       ELSE <<ToolDefinition(name, description, ExtractParametersJson(obj),
                             properties, confidence)>>

KnownTools ==
    {"Bash", "Read", "Write", "Edit", "Grep", "Glob", "Task", "TodoWrite",
     "NotebookEdit", "WebFetch", "WebSearch", "Skill", "SlashCommand",
     "AskUserQuestion", "ExitPlanMode", "BashOutput", "KillShell",
     "ListMcpResources", "ReadMcpResource"}

ExcludedPrefixes ==
    {<<"S", "I", "G">>, <<"S", "Y", "S", "R", "E", "S">>, <<"E", "R", "R", "O", "R">>,
     <<"H", "T", "T", "P">>, <<"C", "O", "N", "S", "T">>}

StartsWith(text, prefix) ==
    Len(text) >= Len(prefix) /\ SubSeq(text, 1, Len(prefix)) = prefix

\* BeautifiedToolExtractor::is_likely_tool_name, on the characters of the name
IsLikelyToolName(name) ==
    IF Join(name) \in KnownTools THEN TRUE
    ELSE IF Len(name) < 3 \/ Len(name) > 20 THEN FALSE
    ELSE IF \E prefix \in ExcludedPrefixes : StartsWith(name, prefix) THEN FALSE
    ELSE Len(name) > 0 /\ name[1] \in Uppercase

MaxObjects == 2    \* object expressions of the analysed program

\* the properties try_extract_tool weighs
EvidenceProperties ==
    << ObjectProperty(StaticIdentifierKey("name"), StringLiteral(<<"B", "a", "s", "h">>)),
       MethodProperty(StaticIdentifierKey("description")),
       ObjectProperty(StaticIdentifierKey("inputSchema"), Identifier("s")),
       MethodProperty(StaticIdentifierKey("call")),
       MethodProperty(StaticIdentifierKey("checkPermissions")) >>

\* the object with the evidence properties whose bit is set in mask
RECURSIVE Masked(_, _)
Masked(mask, j) ==
    IF j = 0 THEN <<>>
    ELSE IF (mask \div (2 ^ (j - 1))) % 2 = 1
         THEN Append(Masked(mask, j - 1), EvidenceProperties[j])
         ELSE Masked(mask, j - 1)

OddObjects ==
    << \* { name: x4, async description() {} }
       <<ObjectProperty(StaticIdentifierKey("name"), Identifier("x4")),
         MethodProperty(StaticIdentifierKey("description"))>>,
       \* { name: 42, inputSchema: s, call() {} }
       <<ObjectProperty(StaticIdentifierKey("name"), NumericLiteral(42)),
         ObjectProperty(StaticIdentifierKey("inputSchema"), Identifier("s")),
         MethodProperty(StaticIdentifierKey("call"))>>,
       \* { name: "", async description() {} }
       <<ObjectProperty(StaticIdentifierKey("name"), StringLiteral(<<>>)),
         MethodProperty(StaticIdentifierKey("description"))>>,
       \* { "name": "Read", description: "text", output_schema: s }
       <<ObjectProperty(StringLiteralKey(<<"n", "a", "m", "e">>),
                        StringLiteral(<<"R", "e", "a", "d">>)),
         ObjectProperty(StaticIdentifierKey("description"),
                        StringLiteral(<<"t", "e", "x", "t">>)),
         ObjectProperty(StaticIdentifierKey("output_schema"), Identifier("s"))>>,
       \* { name: "Edit", description: "text", call: f }
       <<ObjectProperty(StaticIdentifierKey("name"), StringLiteral(<<"E", "d", "i", "t">>)),
         ObjectProperty(StaticIdentifierKey("description"),
                        StringLiteral(<<"t", "e", "x", "t">>)),
         ObjectProperty(StaticIdentifierKey("call"), Identifier("f"))>>,
       \* { [1]: 1, name: "Glob", input_schema: { type: "object", [1]: 2, n: 3, f: g } }
       <<ObjectProperty(NumericKey, NumericLiteral(1)),
         ObjectProperty(StaticIdentifierKey("name"), StringLiteral(<<"G", "l", "o", "b">>)),
         ObjectProperty(StaticIdentifierKey("input_schema"),
             ObjectExpression(
                 <<ObjectProperty(StaticIdentifierKey("type"),
                                  StringLiteral(<<"o", "b", "j", "e", "c", "t">>)),
                   ObjectProperty(NumericKey, NumericLiteral(2)),
                   ObjectProperty(StaticIdentifierKey("n"), NumericLiteral(3)),
                   ObjectProperty(StaticIdentifierKey("f"), Identifier("g"))>>))>>,
       \* { ...rest, name: y, name: "Grep", async description() {}, schema: true }
       <<SpreadProperty(Identifier("rest")),
         ObjectProperty(StaticIdentifierKey("name"), Identifier("y")),
         ObjectProperty(StaticIdentifierKey("name"), StringLiteral(<<"G", "r", "e", "p">>)),
         MethodProperty(StaticIdentifierKey("description")),
         ObjectProperty(StaticIdentifierKey("schema"), BooleanLiteral(TRUE))>>,
       \* { name() {}, async description() {}, parameters: p }
       <<MethodProperty(StaticIdentifierKey("name")),
         MethodProperty(StaticIdentifierKey("description")),
         ObjectProperty(StaticIdentifierKey("parameters"), Identifier("p"))>> >>

EvidenceMasks == 2 ^ Len(EvidenceProperties)
ObjectPoolSize == EvidenceMasks + Len(OddObjects)
ObjectAt(i) ==
    ObjectExpression(IF i <= EvidenceMasks
                     THEN Masked(i - 1, Len(EvidenceProperties))
                     ELSE OddObjects[i - EvidenceMasks])

\* one iteration of the loop of ToolExtractor::extract
ExtractFromObject ==
    /\ pc = "ast"
    /\ tool_idx <= Len(objects)
    /\ LET tool == TryExtractTool(objects[tool_idx])
       IN tools' = IF Len(tool) = 1 THEN Append(tools, tool[1]) ELSE tools
    /\ tool_idx' = tool_idx + 1
    /\ UNCHANGED <<pc, symvars, tmplvars, schemavars, dedupvars, enrichvars, textvars, assemblevars,
                   objects, captures, beautified_code, with_ast>>

(***************************************************************************)
(* C10                                                                     *)
(***************************************************************************)
\* C10: every tool record produced by any channel has a confidence in the
\* closed interval [0,1] (0..10 tenths).
C10_ConfidenceInUnitInterval ==
    \A i \in 1..Len(tools) : tools[i].confidence >= 0 /\ tools[i].confidence <= 10

(***************************************************************************)
(* C11                                                                     *)
(***************************************************************************)
\* C11: every tool record in the output of any channel has a non-empty
\* name.
C11_NameNotEmpty == \A i \in 1..Len(tools) : tools[i].name # ""

(***************************************************************************)
(* C18                                                                     *)
(***************************************************************************)
\* the assignments of the blocks from block b on, in merge order
RECURSIVE AllAssignments(_, _)
AllAssignments(blocks, b) ==
    IF b > Len(blocks) THEN <<>>
    ELSE blocks[b].assignments \o AllAssignments(blocks, b + 1)

\* the names the first k statements declare at top level with a value
DeclaredNames(k) ==
    UNION {LET stmt == program[i]
           IN CASE stmt.kind = "VariableDeclaration" ->
                      {stmt.declarations[d].id.name :
                          d \in {e \in 1..Len(stmt.declarations) :
                                    /\ stmt.declarations[e].id.kind = "BindingIdentifier"
                                    /\ stmt.declarations[e].init # NoInit}}
                [] stmt.kind = "FunctionDeclaration" ->
                      IF \E r \in 1..Len(stmt.body) :
                            stmt.body[r].kind = "ReturnStatement" /\ stmt.body[r].argument # <<>>
                      THEN {stmt.id} ELSE {}
                [] OTHER -> {}
           : i \in 1..k}

\* C18: no delayed-init assignment reaches the environment during the first
\* pass; after the merge every name the blocks assign holds the value of its
\* last assignment, blocks taken in discovery order and assignments in
\* their order within a block, also when the name is declared at top level
\* (before or after the block), and no other name was added.
C18_MergedAfterFirstPass ==
    LET pairs == AllAssignments(lazy_blocks, 1)
        assigned == {pairs[k][1] : k \in 1..Len(pairs)}
        last(name) == CHOOSE k \in 1..Len(pairs) :
                         /\ pairs[k][1] = name
                         /\ \A h \in (k + 1)..Len(pairs) : pairs[h][1] # name
    IN /\ pc = "pass1" => DOMAIN symbols \subseteq DeclaredNames(stmt_idx - 1)
       /\ pc # "pass1" =>
             /\ \A name \in assigned : symbols0[name] = pairs[last(name)][2]
             /\ DOMAIN symbols0 = assigned \cup DeclaredNames(Len(program))

\* a is assigned "hello" by one block and "bye" by a later one and is declared
\* by the last statement, var a = b: the merge left a = "bye"
C18_Witness ==
    /\ pc = "pass3"
    /\ rounds = 0
    /\ Len(program) = 3
    /\ program[3] = Var("a", Identifier("b"))
    /\ Len(lazy_blocks) = 3
    /\ lazy_blocks[1].assignments[1] = <<"a", SymString(<<"h", "e", "l", "l", "o">>)>>
    /\ symbols0["a"] = SymString(<<"b", "y", "e">>)

(***************************************************************************)
(* C19                                                                     *)
(***************************************************************************)
\* C19: in every round of resolve_references a binding that holds
\* Reference(t) takes the value t had when the round began if that value is
\* not a Reference, and every other binding is left as it was; nothing
\* written during the round is read in it.
C19_RoundReadsSnapshot ==
    [][rounds' = rounds + 1 =>
          /\ DOMAIN symbols' = DOMAIN symbols
          /\ \A name \in DOMAIN symbols :
                LET value == symbols[name]
                IN IF /\ value.tag = "ObjectRef"
                      /\ value.name \in DOMAIN symbols
                      /\ symbols[value.name].tag # "ObjectRef"
                   THEN symbols'[name] = symbols[value.name]
                   ELSE symbols'[name] = value]_vars

\* after the first round a binding still holds a Reference to a name that
\* this round resolved
C19_Witness ==
    /\ rounds = 1
    /\ \E name \in DOMAIN symbols :
          /\ symbols[name].tag = "ObjectRef"
          /\ symbols[name].name \in DOMAIN symbols
          /\ symbols[symbols[name].name].tag # "ObjectRef"
          /\ symbols0[symbols[name].name].tag = "ObjectRef"

(***************************************************************************)
(* C20                                                                     *)
(***************************************************************************)
\* C20: on the environment that SymbolTable::new built, get_string_value
\* returns (a string or none) for every bound name.
C20_GetStringValueReturns ==
    pc = "built" =>
        \A name \in DOMAIN symbols : GetStringValue(symbols, name).kind # "Overflow"

(***************************************************************************)
(* Text predicates of extractor/prompts_enhanced.rs and                    *)
(* extractor/prompts.rs.  str::len counts bytes (ByteLen), chars() counts  *)
(* characters (Len).                                                       *)
(***************************************************************************)
\* the character U+0060, which a string of this notation cannot hold
Backtick == "<backtick>"

\* str::contains
Contains(content, pattern) ==
    \E i \in 1..(Len(content) - Len(pattern) + 1) :
        SubSeq(content, i, i + Len(pattern) - 1) = pattern

\* str::ends_with
EndsWith(content, suffix) ==
    /\ Len(content) >= Len(suffix)
    /\ SubSeq(content, Len(content) - Len(suffix) + 1, Len(content)) = suffix

\* content.chars().take(n).collect()
Take(content, n) == SubSeq(content, 1, IF Len(content) < n THEN Len(content) ELSE n)

\* the white space of the texts of this model
WhiteSpace == {" ", "\n", "\t", "\r"}

\* str::trim
Trim(content) ==
    LET solid == {i \in 1..Len(content) : content[i] \notin WhiteSpace}
    IN IF solid = {} THEN <<>>
       ELSE SubSeq(content,
                   CHOOSE i \in solid : \A j \in solid : i <= j,
                   CHOOSE i \in solid : \A j \in solid : j <= i)

\* char::is_alphanumeric, or '_'
IdentifierChars == NameChars \cup {"é"}

CodeIndicators ==
    {<<"f", "u", "n", "c", "t", "i", "o", "n", "(">>, <<"a", "s", "y", "n", "c", " ", "f", "u", "n", "c", "t", "i", "o", "n">>, <<"(", ")", " ", "=", ">">>, <<"}", " ", "c", "a", "t", "c", "h", " ",
                                                     "{">>, <<"t", "h", "r", "o", "w",
                                                                    " ", "E", "r", "r", "o",
                                                                    "r", "(">>,
     <<"r", "e", "t", "u", "r", "n", " ", "!">>, <<"l", "e", "t", " ">>, <<"c", "o", "n", "s", "t", " ">>, <<"v", "a", "r", " ">>, <<"i", "f", " ", "(", "!">>, <<"s", "t", "d", "i", "o", ":">>, <<".", "f", "o", "r",
                                                                            "E", "a", "c", "h",
                                                                            "(">>,
     <<".", "m", "a", "p", "(">>, <<"\t", "}">>, <<"}", ")", ";">>, <<"m", "o", "d", "u", "l", "e", ".", "e", "x", "p", "o", "r",
                                    "t", "s">>, <<"S", "N", "A", "P", "S", "H", "O", "T",
                                                        "_", "F", "I", "L", "E", "=">>, <<"#", "!", "/", "b",
                                                                            "i", "n", "/">>}

CodeStarts ==
    {<<",">>, <<"}">>, <<")">>, <<";">>, <<"l", "e", "t", " ">>, <<"c", "o", "n", "s", "t", " ">>, <<"v", "a", "r", " ">>, <<"f", "u", "n", "c", "t",
                                                                   "i", "o", "n", " ">>,
     <<"a", "s", "y", "n", "c", " ">>, <<"r", "e", "t", "u", "r", "n", " ">>}

\* EnhancedPromptExtractor::is_code_fragment
IsCodeFragment(content) ==
    LET code_count == Cardinality({ind \in CodeIndicators : Contains(content, ind)})
        trimmed == Trim(content)
        brace_count == Cardinality({i \in 1..Len(content) : content[i] \in {"{", "}"}})
        semicolon_count == Cardinality({i \in 1..Len(content) : content[i] = ";"})
    IN IF code_count >= 3 THEN TRUE
       ELSE IF /\ StartsWith(trimmed, <<"n", "a", "m", "e", ":">>)
               /\ Contains(content, <<"o", "n", ":">>)
               /\ Contains(content, <<"j", "o", "b", "s", ":">>)
       THEN TRUE
       ELSE IF \/ Contains(content, <<"#", "!", "/", "b", "i", "n", "/">>)
               \/ Contains(content, <<"S", "N", "A", "P", "S", "H", "O", "T", "_", "F", "I",
                                      "L", "E">>) /\ Contains(content, <<"e", "c", "h",
                                                                              "o">>)
       THEN TRUE
       ELSE IF /\ Contains(content, <<"{">>) /\ Contains(content, <<"}">>)
               /\ Contains(content, <<";">>)
               /\ \/ brace_count > ByteLen(content) \div 50
                  \/ semicolon_count > ByteLen(content) \div 50
       THEN TRUE
       ELSE \E start \in CodeStarts : StartsWith(trimmed, start)

\* EnhancedPromptExtractor::is_keyword_list; the f32 test
\* identifier_count / words > 0.8 is 10 * identifier_count > 8 * words
IsKeywordList(content) ==
    IF Contains(content, <<".", " ">>) \/ Contains(content, <<".", "\n">>) THEN FALSE
    ELSE LET solid(i) == i >= 1 /\ i <= Len(content) /\ content[i] \notin WhiteSpace
             starts == {i \in 1..Len(content) : solid(i) /\ ~solid(i - 1)}
             words == {i \in starts : Cardinality({j \in starts : j < i}) < 20}
             end(i) == CHOOSE e \in i..Len(content) :
                           (\A j \in i..e : solid(j)) /\ ~solid(e + 1)
             word(i) == SubSeq(content, i, end(i))
             is_identifier(w) ==
                 /\ \A j \in 1..Len(w) : w[j] \in IdentifierChars
                 /\ ByteLen(w) > 2
             identifier_count == Cardinality({i \in words : is_identifier(word(i))})
         IN IF Cardinality(words) < 10 THEN FALSE
            ELSE 10 * identifier_count > 8 * Cardinality(words)

LiteralIndicators ==
    {<<"Y", "o", "u", " ", "a", "r", "e", " ", "C", "l", "a", "u", "d", "e">>, <<"Y", "o", "u", " ", "a", "r", "e", " ", "p", "o", "w", "e", "r",
                           "e", "d", " ", "b", "y">>, <<"a", "n", "s", "w", "e", "r", " ", "t", "h",
                                                   "e", " ", "u", "s", "e", "r">>, <<"t", "o", "o", "l",
                                                                        "_", "u", "s", "e">>,
     <<"f", "u", "n", "c", "t", "i", "o", "n", "_", "c", "a", "l", "l", "s">>, <<"s", "y", "s", "t", "e", "m", " ", "p", "r", "o", "m", "p", "t">>, <<"I", "M", "P", "O", "R", "T", "A", "N", "T", ":">>, <<"U", "s", "a", "g", "e", " ",
                                                              "n", "o", "t", "e", "s", ":">>,
     <<"U", "s", "a", "g", "e", ":">>, <<"#", "#", " ">>, <<"W", "h", "e", "n", " ", "N", "O", "T", " ", "t", "o", " ", "u",
                            "s", "e">>, <<"W", "h", "e", "n", " ", "t", "o", " ", "u",
                                                 "s", "e">>, <<"E", "x", "a", "m", "p", "l",
                                                                  "e", ":">>,
     <<"T", "h", "i", "s", " ", "t", "o", "o", "l">>, <<"U", "s", "e", " ", "t", "h", "i", "s">>, <<"A", "v", "a", "i", "l", "a", "b", "l", "e">>, <<"a", "l", "l", "o", "w", "s", " ", "y", "o",
                                                   "u", " ", "t", "o">>, <<"e", "n", "a", "b", "l",
                                                                      "e", "s">>,
     <<"S", "u", "p", "p", "o", "r", "t", "s">>, <<"N", "o", "t", "e", ":">>, <<"W", "A", "R", "N", "I", "N", "G", ":">>, <<"C", "a", "u", "t", "i", "o", "n", ":">>, <<"D", "e", "s", "c", "r", "i", "p",
                                                            "t", "i", "o", "n", ":">>,
     <<"<", "e", "x", "a", "m", "p", "l", "e", ">">>, <<Backtick, Backtick, Backtick>>, <<"P", "a", "r", "a", "m", "e", "t", "e", "r", "s", ":">>, <<"R", "e", "t", "u", "r", "n", "s", ":">>, <<"T", "h", "r", "o", "w", "s",
                                                              ":">>, <<"\n", "\n">>}

\* a threshold above the length of the scenario text
Mut_MinLiteralLen == 60 + 8

MinLiteralLen == 60

\* EnhancedPromptExtractor::is_likely_prompt, on the value of a string literal
\* (StringLiteralInfo.length is value.len())
IsLikelyPrompt(value) ==
    IF ByteLen(value) < MinLiteralLen THEN FALSE
    ELSE IF IsCodeFragment(value) THEN FALSE
    ELSE IF IsKeywordList(value) THEN FALSE
    ELSE \E indicator \in LiteralIndicators : Contains(value, indicator)

SymbolIndicators ==
    {<<"Y", "o", "u", " ", "a", "r", "e", " ", "C", "l", "a", "u", "d", "e">>, <<"I", "M", "P", "O", "R", "T", "A", "N", "T", ":">>, <<"U", "s", "a", "g", "e", " ", "n", "o", "t", "e",
                                           "s", ":">>, <<"U", "s", "a", "g", "e", ":">>, <<"#", "#", " ">>,
     <<"W", "h", "e", "n", " ", "N", "O", "T", " ", "t", "o", " ", "u", "s", "e">>, <<"W", "h", "e", "n", " ", "t", "o", " ", "u", "s", "e">>, <<"E", "x", "a", "m", "p", "l", "e", ":">>, <<"T", "h", "i", "s", " ", "t", "o",
                                                           "o", "l">>, <<"U", "s", "e", " ",
                                                                          "t", "h", "i", "s">>,
     <<"a", "l", "l", "o", "w", "s", " ", "y", "o", "u", " ", "t", "o">>, <<"S", "u", "p", "p", "o", "r", "t", "s">>, <<"P", "a", "r", "a", "m", "e", "t", "e", "r", "s", ":">>, <<"\n", "\n">>}

\* EnhancedPromptExtractor::has_prompt_indicators
HasPromptIndicators(content) ==
    \E indicator \in SymbolIndicators : Contains(content, indicator)

ToolDescPatterns ==
    {<<"C", "o", "m", "p", "l", "e", "t", "e", "l", "y", " ", "r", "e", "p", "l", "a", "c",
       "e", "s">>, <<"R", "e", "t", "r", "i", "e", "v", "e", "s", " ", "o", "u",
                                "t", "p", "u", "t", " ", "f", "r", "o", "m">>, <<"K", "i", "l", "l", "s", " ", "a",
                                                           " ", "r", "u", "n", "n", "i", "n",
                                                           "g">>,
     <<"L", "a", "n", "g", "u", "a", "g", "e", " ", "S", "e", "r", "v", "e", "r", " ", "P",
       "r", "o", "t", "o", "c", "o", "l">>, <<"E", "x", "e", "c", "u", "t", "e", " ", "a", " ", "s",
                                     "k", "i", "l", "l">>, <<"E", "x", "e", "c", "u", "t", "e",
                                                          " ", "a", " ", "s", "l", "a", "s",
                                                          "h", " ", "c", "o", "m", "m", "a",
                                                          "n", "d">>,
     <<"s", "k", "i", "l", "l", "s", "_", "i", "n", "s", "t", "r", "u", "c", "t", "i", "o",
       "n", "s">>, <<"a", "v", "a", "i", "l", "a", "b", "l", "e", "_", "s", "k",
                                "i", "l", "l", "s">>}

\* EnhancedPromptExtractor::looks_like_tool_description
LooksLikeToolDescription(content) ==
    \E pattern \in ToolDescPatterns : Contains(content, pattern)

MinSymbolLen == 60

\* the test extract_from_symbol_table applies to a String or TemplateLiteral
IsSymbolPrompt(s) ==
    /\ ByteLen(s) >= MinSymbolLen
    /\ ~IsCodeFragment(s)
    /\ HasPromptIndicators(s) \/ LooksLikeToolDescription(s)

\* EnhancedPromptExtractor::categorize_prompt (literal channel)
CategorizePrompt(value) ==
    IF Contains(value, <<"Y", "o", "u", " ", "a", "r", "e", " ", "C", "l", "a", "u", "d", "e">>) \/ Contains(value, <<"a", "n", "s", "w", "e", "r",
                                                                " ", "t", "h", "e", " ", "u",
                                                                "s", "e", "r">>)
    THEN "System"
    ELSE IF \/ Contains(value, <<"t", "o", "o", "l">>) \/ Contains(value, <<"f", "u", "n", "c", "t", "i",
                                                              "o", "n">>)
            \/ Contains(value, <<"T", "h", "i", "s", " ", "t", "o", "o", "l">>)
    THEN "Tool"
    ELSE IF Contains(value, <<"E", "x", "a", "m", "p", "l", "e", ":">>) \/ Contains(value, <<"<", "e", "x", "a", "m", "p",
                                                               "l", "e", ">">>)
    THEN "Example"
    ELSE IF Contains(value, <<"E", "r", "r", "o", "r", ":">>) \/ Contains(value, <<"e", "r", "r", "o", "r">>)
    THEN "Error"
    ELSE IF Contains(value, <<"I", "M", "P", "O", "R", "T", "A", "N", "T", ":">>) \/ Contains(value, <<"U", "s", "a", "g", "e">>)
    THEN "Instruction"
    ELSE "Other"

\* EnhancedPromptExtractor::categorize_prompt_str (symbol-table channel)
CategorizePromptStr(value) ==
    IF Contains(value, <<"Y", "o", "u", " ", "a", "r", "e", " ", "C", "l", "a", "u", "d", "e">>) \/ Contains(value, <<"a", "n", "s", "w", "e", "r",
                                                                " ", "t", "h", "e", " ", "u",
                                                                "s", "e", "r">>)
    THEN "System"
    ELSE IF \/ Contains(value, <<"t", "o", "o", "l">>) \/ Contains(value, <<"f", "u", "n", "c", "t", "i",
                                                              "o", "n">>)
            \/ Contains(value, <<"T", "h", "i", "s", " ", "t", "o", "o", "l">>)
    THEN "Tool"
    ELSE IF Contains(value, <<"E", "x", "a", "m", "p", "l", "e", ":">>) \/ Contains(value, <<"<", "e", "x", "a", "m", "p",
                                                               "l", "e", ">">>)
    THEN "Example"
    ELSE IF Contains(value, <<"E", "r", "r", "o", "r", ":">>) \/ Contains(value, <<"e", "r", "r", "o", "r">>)
    THEN "Error"
    ELSE IF Contains(value, <<"I", "M", "P", "O", "R", "T", "A", "N", "T", ":">>) \/ Contains(value, <<"U", "s", "a", "g", "e">>)
    THEN "Instruction"
    ELSE "Other"

\* the basic extractor's categorize with the Example and Error rules exchanged
Mut_BasicCategorizePrompt(value) ==
    IF Contains(value, <<"Y", "o", "u", " ", "a", "r", "e", " ", "C", "l", "a", "u", "d", "e">>) \/ Contains(value, <<"a", "n", "s", "w", "e", "r",
                                                                " ", "t", "h", "e", " ", "u",
                                                                "s", "e", "r">>)
    THEN "System"
    ELSE IF Contains(value, <<"t", "o", "o", "l">>) \/ Contains(value, <<"f", "u", "n", "c", "t", "i", "o",
                                                           "n">>)
    THEN "Tool"
    ELSE IF Contains(value, <<"E", "r", "r", "o", "r", ":">>) \/ Contains(value, <<"e", "r", "r", "o", "r">>)
    THEN "Error"
    ELSE IF Contains(value, <<"E", "x", "a", "m", "p", "l", "e", ":">>) \/ Contains(value, <<"<", "e", "x", "a", "m", "p",
                                                               "l", "e", ">">>)
    THEN "Example"
    ELSE IF Contains(value, <<"I", "M", "P", "O", "R", "T", "A", "N", "T", ":">>) \/ Contains(value, <<"U", "s", "a", "g", "e">>)
    THEN "Instruction"
    ELSE "Other"

\* PromptExtractor::categorize_prompt (basic extractor)
BasicCategorizePrompt(value) ==
    IF Contains(value, <<"Y", "o", "u", " ", "a", "r", "e", " ", "C", "l", "a", "u", "d", "e">>) \/ Contains(value, <<"a", "n", "s", "w", "e", "r",
                                                                " ", "t", "h", "e", " ", "u",
                                                                "s", "e", "r">>)
    THEN "System"
    ELSE IF Contains(value, <<"t", "o", "o", "l">>) \/ Contains(value, <<"f", "u", "n", "c", "t", "i", "o",
                                                           "n">>)
    THEN "Tool"
    ELSE IF Contains(value, <<"E", "x", "a", "m", "p", "l", "e", ":">>) \/ Contains(value, <<"<", "e", "x", "a", "m", "p",
                                                               "l", "e", ">">>)
    THEN "Example"
    ELSE IF Contains(value, <<"E", "r", "r", "o", "r", ":">>) \/ Contains(value, <<"e", "r", "r", "o", "r">>)
    THEN "Error"
    ELSE IF Contains(value, <<"I", "M", "P", "O", "R", "T", "A", "N", "T", ":">>) \/ Contains(value, <<"U", "s", "a", "g", "e">>)
    THEN "Instruction"
    ELSE "Other"

\* known_tools of associate_tools
AssociatedTools ==
    {<<"B", "a", "s", "h">>, <<"R", "e", "a", "d">>, <<"W", "r", "i", "t", "e">>, <<"E", "d", "i", "t">>, <<"G", "r", "e", "p">>, <<"G", "l", "o", "b">>, <<"T", "a", "s", "k">>,
     <<"T", "o", "d", "o", "W", "r", "i", "t", "e">>, <<"N", "o", "t", "e", "b", "o", "o", "k", "E", "d", "i", "t">>, <<"W", "e", "b", "F", "e", "t", "c", "h">>, <<"W", "e", "b", "S", "e", "a", "r", "c",
                                                      "h">>, <<"S", "k", "i", "l", "l">>,
     <<"S", "l", "a", "s", "h", "C", "o", "m", "m", "a", "n", "d">>, <<"A", "s", "k", "U", "s", "e", "r", "Q", "u", "e", "s", "t", "i", "o",
                         "n">>, <<"E", "x", "i", "t", "P", "l", "a", "n", "M", "o",
                                              "d", "e">>, <<"B", "a", "s", "h", "O", "u",
                                                                "t", "p", "u", "t">>,
     <<"K", "i", "l", "l", "S", "h", "e", "l", "l">>, <<"L", "S", "P">>}

\* EnhancedPromptExtractor::is_tool_prompt_for
IsToolPromptFor(content, tool_name) ==
    LET first_100 == Take(content, 100)
        first_200 == Take(content, 200)
        name == Join(tool_name)
    IN CASE name = "Read" ->
                StartsWith(content, <<"R", "e", "a", "d", "s", " ", "a", " ", "f", "i", "l",
                                      "e", " ", "f", "r", "o", "m", " ", "t", "h", "e", " ",
                                      "l", "o", "c", "a", "l", " ", "f", "i", "l", "e", "s",
                                      "y", "s", "t", "e", "m">>)
         [] name = "Write" ->
                StartsWith(content, <<"W", "r", "i", "t", "e", "s", " ", "a", " ", "f", "i",
                                      "l", "e", " ", "t", "o", " ", "t", "h", "e", " ", "l",
                                      "o", "c", "a", "l", " ", "f", "i", "l", "e", "s", "y",
                                      "s", "t", "e", "m">>)
         [] name = "Edit" ->
                \/ StartsWith(content, <<"P", "e", "r", "f", "o", "r", "m", "s", " ", "e", "x",
                                         "a", "c", "t", " ", "s", "t", "r", "i", "n", "g", " ",
                                         "r", "e", "p", "l", "a", "c", "e", "m", "e", "n", "t",
                                         "s">>)
                \/ Contains(first_100, <<"e", "x", "a", "c", "t", " ", "s", "t", "r", "i", "n",
                                         "g", " ", "r", "e", "p", "l", "a", "c", "e", "m", "e",
                                         "n", "t", "s", " ", "i", "n", " ", "f", "i", "l", "e",
                                         "s">>)
         [] name = "Bash" ->
                \/ StartsWith(content, <<"E", "x", "e", "c", "u", "t", "e", "s", " ", "a", " ",
                                         "g", "i", "v", "e", "n", " ", "b", "a", "s", "h", " ",
                                         "c", "o", "m", "m", "a", "n", "d">>)
                \/ Contains(first_100, <<"E", "x", "e", "c", "u", "t", "e", "s", " ", "a", " ",
                                         "g", "i", "v", "e", "n", " ", "b", "a", "s", "h", " ",
                                         "c", "o", "m", "m", "a", "n", "d">>)
         [] name = "Grep" ->
                /\ Contains(first_100, <<"p", "o", "w", "e", "r", "f", "u", "l", " ", "s", "e",
                                         "a", "r", "c", "h", " ", "t", "o", "o", "l">>)
                /\ Contains(first_100, <<"r", "i", "p", "g", "r", "e", "p">>)
                /\ ~Contains(first_100, <<"g", "l", "o", "b", " ", "p", "a", "t", "t", "e",
                                          "r", "n", "s", " ", "l", "i", "k", "e">>)
         [] name = "Glob" ->
                \/ Contains(first_100, <<"F", "a", "s", "t", " ", "f", "i", "l", "e", " ", "p",
                                         "a", "t", "t", "e", "r", "n", " ", "m", "a", "t", "c",
                                         "h", "i", "n", "g">>)
                \/ /\ Contains(first_100, <<"g", "l", "o", "b", " ", "p", "a", "t", "t", "e",
                                            "r", "n", "s">>)
                   /\ Contains(first_100, <<"*", "*", "/", "*", ".", "j", "s">>)
         [] name = "Task" ->
                \/ Contains(first_100, <<"l", "a", "u", "n", "c", "h", "e", "s", " ", "s", "p",
                                         "e", "c", "i", "a", "l", "i", "z", "e", "d", " ", "a",
                                         "g", "e", "n", "t", "s">>)
                \/ Contains(first_100, <<"L", "a", "u", "n", "c", "h", " ", "a", " ", "n", "e",
                                         "w", " ", "a", "g", "e", "n", "t">>)
         [] name = "TodoWrite" ->
                StartsWith(content,
                    <<"U", "s", "e", " ", "t", "h", "i", "s", " ", "t", "o", "o", "l", " ",
                      "t", "o", " ", "c", "r", "e", "a", "t", "e", " ", "a", "n", "d", " ",
                      "m", "a", "n", "a", "g", "e", " ", "a", " ", "s", "t", "r", "u", "c",
                      "t", "u", "r", "e", "d", " ", "t", "a", "s", "k", " ", "l", "i", "s",
                      "t">>)
         [] name = "WebFetch" ->
                Contains(first_100, <<"F", "e", "t", "c", "h", "e", "s", " ", "c", "o", "n",
                                      "t", "e", "n", "t", " ", "f", "r", "o", "m", " ", "a",
                                      " ", "s", "p", "e", "c", "i", "f", "i", "e", "d", " ",
                                      "U", "R", "L">>)
         [] name = "WebSearch" -> Contains(first_100, <<"s", "e", "a", "r", "c", "h", " ", "t",
                                                        "h", "e", " ", "w", "e", "b">>)
         [] name = "NotebookEdit" ->
                Contains(first_100, <<"J", "u", "p", "y", "t", "e", "r", " ", "n", "o", "t",
                                      "e", "b", "o", "o", "k">>) /\ Contains(first_100, <<"c", "e",
                                                                                   "l", "l">>)
         [] name = "AskUserQuestion" ->
                StartsWith(content, <<"U", "s", "e", " ", "t", "h", "i", "s", " ", "t", "o",
                                      "o", "l", " ", "w", "h", "e", "n", " ", "y", "o", "u",
                                      " ", "n", "e", "e", "d", " ", "t", "o", " ", "a", "s",
                                      "k", " ", "t", "h", "e", " ", "u", "s", "e", "r">>)
         [] name = "Skill" ->
                Contains(first_100, <<"E", "x", "e", "c", "u", "t", "e", " ", "a", " ", "s",
                                      "k", "i", "l", "l", " ", "w", "i", "t", "h", "i", "n",
                                      " ", "t", "h", "e", " ", "m", "a", "i", "n", " ", "c",
                                      "o", "n", "v", "e", "r", "s", "a", "t", "i", "o", "n">>)
         [] name = "SlashCommand" -> Contains(first_100, <<"E", "x", "e", "c", "u", "t", "e",
                                                           " ", "a", " ", "s", "l", "a", "s",
                                                           "h", " ", "c", "o", "m", "m", "a",
                                                           "n", "d">>)
         [] name = "ExitPlanMode" ->
                Contains(first_100, <<"p", "l", "a", "n", " ", "m", "o", "d", "e">>) /\ Contains(first_100, <<"r", "e", "a", "d",
                                                                            "y", " ", "t", "o",
                                                                            " ", "c", "o", "d",
                                                                            "e">>)
         [] name = "BashOutput" ->
                Contains(first_100, <<"R", "e", "t", "r", "i", "e", "v", "e", "s", " ", "o",
                                      "u", "t", "p", "u", "t", " ", "f", "r", "o", "m", " ",
                                      "a", " ", "r", "u", "n", "n", "i", "n", "g">>)
         [] name = "KillShell" ->
                Contains(first_100, <<"K", "i", "l", "l", "s", " ", "a", " ", "r", "u", "n",
                                      "n", "i", "n", "g", " ", "b", "a", "c", "k", "g", "r",
                                      "o", "u", "n", "d", " ", "b", "a", "s", "h">>)
         [] name = "LSP" ->
                StartsWith(content, <<"I", "n", "t", "e", "r", "a", "c", "t", " ", "w", "i",
                                      "t", "h", " ", "L", "a", "n", "g", "u", "a", "g", "e",
                                      " ", "S", "e", "r", "v", "e", "r", " ", "P", "r", "o",
                                      "t", "o", "c", "o", "l">>)
         [] OTHER -> Contains(first_200, tool_name) /\ ByteLen(content) > 200

IncompleteEndings == {<<".", ".", ".">>, <<" ", "-">>, <<" ", "*">>, <<" ", Backtick>>, <<"\\">>}

ProperEndings == {".", "!", "?", "\"", "'", ")", "]", "}", Backtick}

\* is_incomplete_fragment without the exemption of a closing example tag
Mut_IsIncompleteFragment(content) ==
    LET trimmed == Trim(content)
    IN IF \E end \in IncompleteEndings : EndsWith(trimmed, end) THEN TRUE
       ELSE /\ Len(trimmed) > 0
            /\ trimmed[Len(trimmed)] \notin ProperEndings
            /\ ~EndsWith(trimmed, <<Backtick, Backtick, Backtick>>)

\* EnhancedPromptExtractor::is_incomplete_fragment
IsIncompleteFragment(content) ==
    LET trimmed == Trim(content)
    IN IF \E end \in IncompleteEndings : EndsWith(trimmed, end) THEN TRUE
       ELSE /\ Len(trimmed) > 0
            /\ trimmed[Len(trimmed)] \notin ProperEndings
            /\ ~EndsWith(trimmed, <<Backtick, Backtick, Backtick>>)
            /\ ~EndsWith(trimmed, <<"<", "/", "e", "x", "a", "m", "p", "l", "e", ">">>)

(***************************************************************************)
(* The classification of the string values of a program: the environment   *)
(* is built from `var x4 = "Bash"; var y = "<text>";`, then a value of it  *)
(* goes through the text predicates, as EnhancedPromptExtractor::extract   *)
(* and PromptExtractor::extract put the values of a program through them.  *)
(***************************************************************************)
ScenarioText ==
    <<"E", "x", "e", "c", "u", "t", "e", " ", "b", "a", "s", "h", " ", "c", "o", "m", "m", "a",
      "n", "d", "s", " ", "i", "n", " ", "a", " ", "p", "e", "r", "s", "i", "s", "t", "e", "n",
      "t", " ", "s", "h", "e", "l", "l", ".", " ", "U", "s", "a", "g", "e", ":", " ", "r", "u",
      "n", " ", "s", "h", "e", "l", "l", " ", "c", "o", "d", "e", ".">>

CategoryMarkers ==
    << <<"Y", "o", "u", " ", "a", "r", "e", " ", "C", "l", "a", "u", "d", "e">>, <<"a", "n", "s", "w", "e", "r", " ", "t", "h", "e", " ", "u", "s",
                             "e", "r">>, <<"t", "o", "o", "l">>, <<"f", "u", "n", "c", "t", "i", "o",
                                                            "n">>, <<"T", "h", "i", "s",
                                                                          " ", "t", "o", "o",
                                                                          "l">>,
       <<"E", "x", "a", "m", "p", "l", "e", ":">>, <<"<", "e", "x", "a", "m", "p", "l", "e", ">">>, <<"E", "r", "r", "o", "r", ":">>, <<"e", "r", "r", "o", "r">>, <<"I", "M", "P", "O", "R", "T", "A",
                                                             "N", "T", ":">>, <<"U", "s", "a",
                                                                             "g", "e">> >>

\* texts that hold no, one or two of the markers of categorize
MarkerTexts ==
    {<<"P", "l", "a", "i", "n", " ", "w", "o", "r", "d", "s">>}
    \cup {CategoryMarkers[i] \o <<" ", "a", "n", "d", " ", "m", "o", "r", "e", ".">> : i \in 1..Len(CategoryMarkers)}
    \cup {CategoryMarkers[i] \o <<" ", "t", "h", "e", "n", " ">> \o CategoryMarkers[j] \o <<".">> :
              i, j \in 1..Len(CategoryMarkers)}

TextEndings ==
    {<<>>, <<".">>, <<"!">>, <<"?">>, <<"\"">>, <<"'">>, <<")">>, <<"]">>, <<"}">>, <<Backtick>>, <<".", ".", ".">>, <<" ", "-">>,
     <<" ", "*">>, <<" ", Backtick>>, <<"\\">>, <<Backtick, Backtick, Backtick>>, <<"<", "/", "e", "x", "a", "m", "p", "l", "e", ">">>, <<">">>, <<"é">>, <<" ", "w", "o", "r", "d">>, <<".", " ",
                                                                                 "\n">>,
     <<":", "\t", " ">>}

EndingTexts ==
    {body \o ending : body \in {<<>>, <<"S", "o", "m", "e", " ", "w", "o", "r", "d", "s">>, <<"<", "e", "x", "a", "m", "p", "l", "e",
                                                        ">", "x">>},
                      ending \in TextEndings}

FixedTexts ==
    {ScenarioText,
     <<"E", "x", "e", "c", "u", "t", "e", "s", " ", "b", "a", "s", "h", " ", "c", "o", "m",
       "m", "a", "n", "d", "s">>,
     <<"R", "e", "a", "d", "s", " ", "a", " ", "f", "i", "l", "e", " ", "f", "r", "o", "m",
       " ", "t", "h", "e", " ", "l", "o", "c", "a", "l">>,
     <<"E", "x", "e", "c", "u", "t", "e", "s", " ", "b", "a", "s", "h", " ", "c", "o", "m",
       "m", "a", "n", "d", "s", " ", "i", "n", " ", "a", " ", "p", "e", "r", "s", "i", "s",
       "t", "e", "n", "t", " ", "s", "h", "e", "l", "l", " ", "s", "e", "s", "s", "i", "o",
       "n", ".", " ", "U", "s", "e", " ", "t", "h", "i", "s", " ", "t", "o", "o", "l", " ",
       "f", "o", "r", " ", "t", "e", "r", "m", "i", "n", "a", "l", " ", "o", "p", "e", "r",
       "a", "t", "i", "o", "n", "s", ".">>,
     <<"R", "e", "a", "d", "s", " ", "a", " ", "f", "i", "l", "e", " ", "f", "r", "o", "m",
       " ", "t", "h", "e", " ", "l", "o", "c", "a", "l", " ", "f", "i", "l", "e", "s", "y",
       "s", "t", "e", "m", ".", " ", "Y", "o", "u", " ", "c", "a", "n", " ", "a", "c", "c",
       "e", "s", "s", " ", "a", "n", "y", " ", "f", "i", "l", "e", " ", "d", "i", "r", "e",
       "c", "t", "l", "y", ".">>,
     <<"E", "x", "e", "c", "u", "t", "e", "s", " ", "a", " ", "g", "i", "v", "e", "n", " ",
       "b", "a", "s", "h", " ", "c", "o", "m", "m", "a", "n", "d", " ", "i", "n", " ", "a",
       " ", "p", "e", "r", "s", "i", "s", "t", "e", "n", "t", " ", "s", "h", "e", "l", "l",
       " ", "s", "e", "s", "s", "i", "o", "n", " ", "w", "i", "t", "h", " ", "o", "p", "t",
       "i", "o", "n", "a", "l", " ", "t", "i", "m", "e", "o", "u", "t", ".">>,
     <<"T", "h", "i", "s", " ", "i", "s", " ", "a", " ", "f", "r", "a", "g", "m", "e", "n",
       "t", " ", "t", "h", "a", "t", " ", "e", "n", "d", "s", " ", "w", "i", "t", "h">>,
     <<"T", "h", "i", "s", " ", "i", "s", " ", "a", " ", "c", "o", "m", "p", "l", "e", "t",
       "e", " ", "s", "e", "n", "t", "e", "n", "c", "e", ".">>,
     <<"f", "u", "n", "c", "t", "i", "o", "n", "(", " ", "x", " ", ")", " ", "{", " ", "l",
       "e", "t", " ", "a", " ", "=", " ", "1", ";", " ", "c", "o", "n", "s", "t", " ", "b",
       " ", "=", " ", "2", ";", " ", "r", "e", "t", "u", "r", "n", " ", "!", "a", ";", " ",
       "}", " ", "U", "s", "a", "g", "e", ":", " ", "c", "a", "l", "l", " ", "i", "t", ",",
       " ", "t", "h", "e", "n", " ", "g", "o", " ", "o", "n", ".">>,
     <<"a", "l", "p", "h", "a", " ", "b", "e", "t", "a", " ", "g", "a", "m", "m", "a", " ",
       "d", "e", "l", "t", "a", " ", "e", "p", "s", "i", "l", "o", "n", " ", "z", "e", "t",
       "a", " ", "e", "t", "a", "_", " ", "t", "h", "e", "t", "a", " ", "i", "o", "t", "a",
       " ", "k", "a", "p", "p", "a", " ", "l", "a", "m", "b", "d", "a", " ", "U", "s", "a",
       "g", "e", ":", " ", "o", "m", "e", "g", "a">>,
     <<" ", " ", " ">>,
     <<"U", "s", "a", "g", "e", ":", " ", "t", "h", "e", " ", "A", "g", "e", "n", "t", " ",
       "h", "e", "l", "p", "e", "r", " ">> \o Repeat("a", 180) \o <<".">>}

TextPool == MarkerTexts \cup EndingTexts \cup FixedTexts

\* the identities of associate_tools and one name outside them
ToolIdentities == AssociatedTools \cup {<<"A", "g", "e", "n", "t">>}

InitText ==
    /\ pc = "pass1"
    /\ \E content \in TextPool :
           program = << Var("x4", StringLiteral(<<"B", "a", "s", "h">>)),
                        Var("y", StringLiteral(content)) >>
    /\ stmt_idx = 1
    /\ symbols = EmptyMap
    /\ lazy_blocks = <<>>
    /\ symbols0 = EmptyMap
    /\ rounds = 0
    /\ last_changed = FALSE
    /\ TemplateIdle
    /\ SchemaIdle
    /\ DedupIdle
    /\ ToolsIdle
    /\ EnrichIdle
    /\ TextIdle
    /\ AssembleIdle

\* the extractors put one String or TemplateLiteral value of the environment
\* through their predicates
Classify ==
    /\ pc = "built"
    /\ \E name \in DOMAIN symbols : \E tool_name \in ToolIdentities :
           /\ symbols[name].tag \in {"String", "TemplateLiteral"}
           /\ cand_text' = symbols[name].s
           /\ cand_tool' = tool_name
           /\ verdict' =
                  [name |-> name,
                   is_likely_prompt |-> IsLikelyPrompt(symbols[name].s),
                   is_symbol_prompt |-> IsSymbolPrompt(symbols[name].s),
                   category |-> CategorizePrompt(symbols[name].s),
                   category_str |-> CategorizePromptStr(symbols[name].s),
                   category_basic |-> BasicCategorizePrompt(symbols[name].s),
                   is_tool_prompt_for |-> IsToolPromptFor(symbols[name].s, tool_name),
                   is_incomplete_fragment |-> IsIncompleteFragment(symbols[name].s)]
    /\ pc' = "classified"
    /\ UNCHANGED <<symvars, tmplvars, schemavars, dedupvars, toolvars, enrichvars, assemblevars>>

NextText ==
    \/ VisitStatement
    \/ ProcessLazyInitBlocks
    \/ ResolveRound
    \/ Classify

SpecText == InitText /\ [][NextText]_vars

(***************************************************************************)
(* C13                                                                     *)
(***************************************************************************)
Classified == pc = "classified"

ScenarioClassified ==
    /\ Classified
    /\ verdict.name = "y"
    /\ cand_text = ScenarioText

\* C13 as stated: for `var x4="Bash"; var y="Execute bash commands in a
\* persistent shell. Usage: run shell code.";` the environment binds x4 to the
\* string "Bash", y's value is a likely prompt and its category is Tool
C13_ScenarioIsTool ==
    ScenarioClassified =>
        /\ symbols["x4"] = SymString(<<"B", "a", "s", "h">>)
        /\ verdict.is_likely_prompt
        /\ verdict.category = "Tool"
        /\ verdict.category_str = "Tool"

\* C13 amended: for the same input the environment binds x4 to the string
\* "Bash", y's value is a likely prompt (literal and symbol-table channel) and
\* its category is Instruction: the text holds neither "tool" nor "function",
\* and "Usage" is a marker of the Instruction rule
C13_ScenarioIsInstruction ==
    ScenarioClassified =>
        /\ symbols["x4"] = SymString(<<"B", "a", "s", "h">>)
        /\ verdict.is_likely_prompt
        /\ verdict.is_symbol_prompt
        /\ verdict.category = "Instruction"
        /\ verdict.category_str = "Instruction"

C13_Witness == ScenarioClassified /\ symbols["y"] = SymString(ScenarioText)

(***************************************************************************)
(* C15                                                                     *)
(***************************************************************************)
\* C15: is_tool_prompt_for is true for identity Bash on the text "Executes bash
\* commands" and for identity Read on the text "Reads a file from the local"
C15_OpeningWordsRecognised ==
    Classified =>
        /\ cand_tool = <<"B", "a", "s", "h">> /\ cand_text = <<"E", "x", "e", "c", "u", "t", "e", "s", " ",
                                                 "b", "a", "s", "h", " ", "c", "o", "m", "m",
                                                 "a", "n", "d", "s">>
               => verdict.is_tool_prompt_for
        /\ cand_tool = <<"R", "e", "a", "d">> /\ cand_text = <<"R", "e", "a", "d", "s", " ", "a", " ", "f",
                                                 "i", "l", "e", " ", "f", "r", "o", "m", " ",
                                                 "t", "h", "e", " ", "l", "o", "c", "a", "l">>
               => verdict.is_tool_prompt_for

(***************************************************************************)
(* C16                                                                     *)
(***************************************************************************)
C16_StrayEndings == {<<".", ".", ".">>, <<" ", "-">>, <<" ", "*">>, <<" ", Backtick>>, <<"\\">>}

\* sentence punctuation, closing quotes, closing brackets, the fence character
C16_Closers == {".", "!", "?", "\"", "'", ")", "]", "}", Backtick}

C16_BadEnding(trimmed) ==
    \/ \E end \in C16_StrayEndings : EndsWith(trimmed, end)
    \/ Len(trimmed) > 0 /\ trimmed[Len(trimmed)] \notin C16_Closers

\* C16 as stated: is_incomplete_fragment(text) is true exactly when the trimmed
\* text ends with "...", " -", " *", " `", a backslash, or with a character
\* that is not sentence punctuation or a closing quote, bracket or fence
C16_IncompleteIffBadEnding ==
    Classified => (verdict.is_incomplete_fragment <=> C16_BadEnding(Trim(cand_text)))

\* C16 amended: as stated, except that a trimmed text that ends with
\* "</example>" and with none of the five stray tokens is complete
C16_IncompleteUnlessExampleEnd ==
    Classified =>
        (verdict.is_incomplete_fragment <=>
            LET trimmed == Trim(cand_text)
            IN \/ \E end \in C16_StrayEndings : EndsWith(trimmed, end)
               \/ /\ Len(trimmed) > 0
                  /\ trimmed[Len(trimmed)] \notin C16_Closers
                  /\ ~EndsWith(trimmed, <<"<", "/", "e", "x", "a", "m", "p", "l", "e", ">">>))

C16_Witness ==
    /\ Classified
    /\ EndsWith(cand_text, <<"<", "/", "e", "x", "a", "m", "p", "l", "e", ">">>)
    /\ ~verdict.is_incomplete_fragment

(***************************************************************************)
(* C17                                                                     *)
(***************************************************************************)
C17_Order == <<"System", "Tool", "Example", "Error", "Instruction">>

C17_Markers(category) ==
    CASE category = "System" -> {<<"Y", "o", "u", " ", "a", "r", "e", " ", "C", "l", "a", "u",
                                   "d", "e">>, <<"a", "n", "s", "w", "e", "r", " ", "t",
                                                       "h", "e", " ", "u", "s", "e", "r">>}
      [] category = "Tool" -> {<<"t", "o", "o", "l">>, <<"f", "u", "n", "c", "t", "i", "o", "n">>, <<"T", "h", "i", "s", " ", "t", "o",
                                                         "o", "l">>}
      [] category = "Example" -> {<<"E", "x", "a", "m", "p", "l", "e", ":">>, <<"<", "e", "x", "a", "m", "p", "l", "e", ">">>}
      [] category = "Error" -> {<<"E", "r", "r", "o", "r", ":">>, <<"e", "r", "r", "o", "r">>}
      [] category = "Instruction" -> {<<"I", "M", "P", "O", "R", "T", "A", "N", "T", ":">>, <<"U", "s", "a", "g", "e">>}

C17_Matches(content, k) ==
    \E marker \in C17_Markers(C17_Order[k]) : Contains(content, marker)

C17_FirstMatch(content) ==
    IF \E k \in 1..Len(C17_Order) : C17_Matches(content, k)
    THEN C17_Order[CHOOSE k \in 1..Len(C17_Order) :
                       /\ C17_Matches(content, k)
                       /\ \A j \in 1..(k - 1) : ~C17_Matches(content, j)]
    ELSE "Other"

\* C17: categorize is the category of the first rule, in the order System,
\* Tool, Example, Error, Instruction, whose marker occurs in the text, and Other
\* when none does, in the literal channel, the symbol-table channel and the
\* basic extractor alike
C17_FirstMatchInEveryChannel ==
    Classified =>
        /\ verdict.category = C17_FirstMatch(cand_text)
        /\ verdict.category_str = C17_FirstMatch(cand_text)
        /\ verdict.category_basic = C17_FirstMatch(cand_text)

\* a text where the marker of a later rule stands before the marker of the rule
\* that wins
C17_Witness ==
    /\ Classified
    /\ cand_text = <<"e", "r", "r", "o", "r", " ", "t", "h", "e", "n", " ", "E", "x", "a", "m",
                     "p", "l", "e", ":", ".">>
    /\ verdict.category = "Example"
    /\ verdict.category_basic = "Example"


(***************************************************************************)
(* BeautifiedToolExtractor (regenerated text): its regular expressions,    *)
(* matched on the characters of the text, and its byte-offset window.  A   *)
(* description is a text (a sequence of characters).                       *)
(***************************************************************************)
\* the character at index i of text, "" outside it
At(text, i) == IF i >= 1 /\ i <= Len(text) THEN text[i] ELSE ""

\* whether the literal lit stands at index i of text
LiteralAt(text, i, lit) ==
    /\ i >= 1
    /\ i + Len(lit) - 1 <= Len(text)
    /\ SubSeq(text, i, i + Len(lit) - 1) = lit

\* \s* from index i (at most Len(text) + 1) on: the index after the white space
SkipWs(text, i) ==
    CHOOSE j \in i..(Len(text) + 1) :
        /\ j = Len(text) + 1 \/ text[j] \notin WhiteSpace
        /\ \A k \in i..(j - 1) : text[k] \in WhiteSpace

\* the character class [a-zA-Z]
Letters == NameChars \ {"0", "1", "2", "3", "4", "5", "6", "7", "8", "9", "_"}

\* last index of the longest run of letters that starts at i (i-1: none)
LetterRunEnd(text, i) ==
    CHOOSE e \in (i - 1)..Len(text) :
        /\ \A k \in i..e : text[k] \in Letters
        /\ e = Len(text) \/ text[e + 1] \notin Letters

Least(S) == CHOOSE x \in S : \A y \in S : x <= y

NoMatch == [ok |-> FALSE, var_name |-> <<>>, tool_name |-> <<>>, start |-> 0, end |-> 0]

\* name_pattern, var\s+([a-zA-Z0-9_]+)\s*=\s*"([A-Z][a-zA-Z]+)"[,;], anchored at s
MatchNamePattern(text, s) ==
    IF ~LiteralAt(text, s, <<"v", "a", "r">>) \/ At(text, s + 3) \notin WhiteSpace THEN NoMatch
    ELSE LET b == SkipWs(text, s + 3)
             e == NameRunEnd(text, b)
             c == SkipWs(text, e + 1)
             d == SkipWs(text, c + 1)
             f == LetterRunEnd(text, d + 2)
         IN IF /\ e >= b
               /\ At(text, c) = "="
               /\ At(text, d) = "\""
               /\ At(text, d + 1) \in Uppercase
               /\ f >= d + 2
               /\ At(text, f + 1) = "\""
               /\ At(text, f + 2) \in {",", ";"}
            THEN [ok |-> TRUE, var_name |-> SubSeq(text, b, e),
                  tool_name |-> SubSeq(text, d + 1, f), start |-> s, end |-> f + 2]
            ELSE NoMatch

\* name_pattern.captures_iter(text): the leftmost matches, none overlapping
RECURSIVE NameMatches(_, _)
NameMatches(text, from) ==
    LET starts == {s \in from..Len(text) : MatchNamePattern(text, s).ok}
    IN IF starts = {} THEN <<>>
       ELSE LET m == MatchNamePattern(text, Least(starts))
            IN <<m>> \o NameMatches(text, m.end + 1)

\* var\s+VAR\s*=\s*"TOOL" anchored at s: the index of the closing quote, or 0
MatchDeclaration(text, s, var_name, tool_name) ==
    IF ~LiteralAt(text, s, <<"v", "a", "r">>) \/ At(text, s + 3) \notin WhiteSpace THEN 0
    ELSE LET b == SkipWs(text, s + 3)
             c == SkipWs(text, b + Len(var_name))
             d == SkipWs(text, c + 1)
         IN IF /\ LiteralAt(text, b, var_name)
               /\ At(text, c) = "="
               /\ LiteralAt(text, d, <<"\"">> \o tool_name \o <<"\"">>)
            THEN d + Len(tool_name) + 1
            ELSE 0

\* the rest of same_line_pattern, ,.*?"([^"]+)", after the closing quote at h
SameLineDescription(text, h) ==
    IF At(text, h + 1) # "," THEN None
    ELSE LET quotes == {q \in (h + 2)..Len(text) : text[q] = "\""}
             opens == {q \in quotes :
                          /\ \A k \in (h + 2)..(q - 1) : text[k] # "\n"
                          /\ At(text, q + 1) \notin {"\"", ""}
                          /\ \E r \in quotes : r > q}
         IN IF opens = {} THEN None
            ELSE LET q == Least(opens)
                     r == Least({x \in quotes : x > q})
                 IN Some(SubSeq(text, q + 1, r - 1))

\* the rest of desc_var_pattern, ;?\s*var\s+[a-zA-Z0-9_]+\s*=\s*`([^`]+)`, after
\* the closing quote at h; the first 500 characters of the group
FollowingDescription(text, h) ==
    LET a == IF At(text, h + 1) = ";" THEN h + 2 ELSE h + 1
        b == SkipWs(text, a)
        c == SkipWs(text, b + 3)
        e == NameRunEnd(text, c)
        f == SkipWs(text, e + 1)
        g == SkipWs(text, f + 1)
        closes == {r \in (g + 1)..Len(text) : text[r] = Backtick}
    IN IF /\ LiteralAt(text, b, <<"v", "a", "r">>)
          /\ At(text, b + 3) \in WhiteSpace
          /\ e >= c
          /\ At(text, f) = "="
          /\ At(text, g) = Backtick
          /\ closes # {}
          /\ Least(closes) > g + 1
       THEN Some(Take(SubSeq(text, g + 1, Least(closes) - 1), 500))
       ELSE None

\* the slice &beautified_code[start..end] is taken off a character boundary
Panic == [kind |-> "Panic", s |-> <<>>]

WindowBefore == 1000
WindowAfter == 2000
MinTemplate == 100
MaxTemplate == 500

\* desc_pattern, `([^`]{100,500})`, searched in the window
LongTemplate(window) ==
    LET ticks == {q \in 1..Len(window) : window[q] = Backtick}
        next(q) == Least({r \in ticks : r > q})
        opens == {q \in ticks :
                     /\ \E r \in ticks : r > q
                     /\ next(q) - q - 1 >= MinTemplate
                     /\ next(q) - q - 1 <= MaxTemplate}
    IN IF opens = {} THEN None
       ELSE Some(SubSeq(window, Least(opens) + 1, next(Least(opens)) - 1))

\* BeautifiedToolExtractor::find_description_near_tool_name; str::find gives a
\* byte offset, and the window is cut at byte offsets
FindDescriptionNearToolName(text, tool_name) ==
    LET hits == {p \in 1..Len(text) : LiteralAt(text, p, <<"\"">> \o tool_name \o <<"\"">>)}
        wide == {j \in 1..Len(text) : Utf8Len(text[j]) = 2}
        before(i) == (i - 1) + Cardinality({j \in wide : j < i})
        pos == before(Least(hits))
        start == IF pos < WindowBefore THEN 0 ELSE pos - WindowBefore
        end == IF pos + WindowAfter < ByteLen(text) THEN pos + WindowAfter ELSE ByteLen(text)
        inside(offset) == \E j \in wide : before(j) + 1 = offset
        first == start + 1 - Cardinality({j \in wide : before(j) < start})
        last == end - Cardinality({j \in wide : before(j) < end})
    IN IF hits = {} THEN None
       ELSE IF inside(start) \/ inside(end) THEN Panic
       ELSE LongTemplate(SubSeq(text, first, last))

\* BeautifiedToolExtractor::find_tool_description
FindToolDescription(text, tool_name, var_name) ==
    LET close(s) == MatchDeclaration(text, s, var_name, tool_name)
        starts == {s \in 1..Len(text) : close(s) # 0}
        same_line == {s \in starts : SameLineDescription(text, close(s)).kind = "Some"}
        following == {s \in starts : FollowingDescription(text, close(s)).kind = "Some"}
    IN IF same_line # {} THEN SameLineDescription(text, close(Least(same_line)))
       ELSE IF following # {} THEN FollowingDescription(text, close(Least(following)))
       ELSE FindDescriptionNearToolName(text, tool_name)

\* BeautifiedToolExtractor::has_input_schema: name:\s*VAR,.*?inputSchema:
HasInputSchema(text, var_name) ==
    \E s \in 1..Len(text) :
        /\ LiteralAt(text, s, <<"n", "a", "m", "e", ":">>)
        /\ LET b == SkipWs(text, s + 5)
               after == b + Len(var_name) + 1
           IN /\ LiteralAt(text, b, var_name \o <<",">>)
              /\ \E t \in after..Len(text) :
                     /\ LiteralAt(text, t, <<"i", "n", "p", "u", "t", "S", "c", "h", "e", "m",
                                             "a", ":">>)
                     /\ \A k \in after..(t - 1) : text[k] # "\n"

\* the loop of resolve_template never ends
Diverges == [kind |-> "Diverges", s |-> <<>>]

\* SymbolTable::resolve_template as a whole: the text it returns; a pass that
\* changes nothing of a text it marks changed repeats for ever, as does a run
\* of more than fuel passes
RECURSIVE ResolveTemplateText(_, _, _)
ResolveTemplateText(map, text, fuel) ==
    LET r == ReplaceAll(map, text, 1)
    IN IF r.overflow THEN Overflow
       ELSE IF ~r.changed THEN Some(r.out)
       ELSE IF r.out = text \/ fuel = 0 THEN Diverges
       ELSE ResolveTemplateText(map, r.out, fuel - 1)

\* one iteration of the loop of BeautifiedToolExtractor::extract for a match
\* whose name is a likely tool name: the record, or how the call ends instead
BeautifiedTool(code, cap, has_table, table) ==
    LET description == FindToolDescription(code, cap.tool_name, cap.var_name)
        has_schema == HasInputSchema(code, cap.var_name)
        has_desc == description.kind = "Some"
        final_description ==
            IF has_desc
            THEN IF has_table THEN ResolveTemplateText(table, description.s, MaxPasses)
                 ELSE description
            ELSE Some(<<"T", "o", "o", "l", ":", " ">> \o cap.tool_name)
    IN IF description.kind = "Panic" THEN Panic
       ELSE IF final_description.kind # "Some" THEN final_description
       ELSE Some(ToolDefinition(
                Join(cap.tool_name),
                final_description.s,
                <<>>,
                IF has_schema THEN <<"name", "description", "inputSchema">>
                ELSE <<"name", "description">>,
                IF has_desc /\ has_schema THEN 10 ELSE IF has_desc THEN 8 ELSE 6))


(***************************************************************************)
(* Enrichment of the tool records with the enhanced prompts                *)
(* (Extractor::extract_tools_with_enhanced_prompts).  The loop reads and   *)
(* writes tool.full_prompt, which ToolDefinition of tools.rs does not      *)
(* declare; the description of the record stands for it.                   *)
(***************************************************************************)
\* the fields of EnhancedSystemPrompt the loop reads
EnhancedPrompt(content) == [content |-> content, length |-> ByteLen(content)]

\* the filter of find_best_prompt_for_tool
MatchesToolPattern(content, tool_name) ==
    LET first_100 == Take(content, 100)
        name == tool_name
    IN CASE name = "Read" ->
                StartsWith(content, <<"R", "e", "a", "d", "s", " ", "a", " ", "f", "i", "l",
                                      "e", " ", "f", "r", "o", "m", " ", "t", "h", "e", " ",
                                      "l", "o", "c", "a", "l", " ", "f", "i", "l", "e", "s",
                                      "y", "s", "t", "e", "m">>)
         [] name = "Write" ->
                StartsWith(content, <<"W", "r", "i", "t", "e", "s", " ", "a", " ", "f", "i",
                                      "l", "e", " ", "t", "o", " ", "t", "h", "e", " ", "l",
                                      "o", "c", "a", "l", " ", "f", "i", "l", "e", "s", "y",
                                      "s", "t", "e", "m">>)
         [] name = "Edit" -> StartsWith(content, <<"P", "e", "r", "f", "o", "r", "m", "s", " ",
                                                   "e", "x", "a", "c", "t", " ", "s", "t", "r",
                                                   "i", "n", "g", " ", "r", "e", "p", "l", "a",
                                                   "c", "e", "m", "e", "n", "t", "s">>)
         [] name = "Bash" -> StartsWith(content, <<"E", "x", "e", "c", "u", "t", "e", "s", " ",
                                                   "a", " ", "g", "i", "v", "e", "n", " ", "b",
                                                   "a", "s", "h", " ", "c", "o", "m", "m", "a",
                                                   "n", "d">>)
         [] name = "Grep" ->
                /\ Contains(first_100, <<"p", "o", "w", "e", "r", "f", "u", "l", " ", "s", "e",
                                         "a", "r", "c", "h", " ", "t", "o", "o", "l">>)
                /\ Contains(first_100, <<"r", "i", "p", "g", "r", "e", "p">>)
         [] name = "Glob" ->
                \/ Contains(first_100, <<"F", "a", "s", "t", " ", "f", "i", "l", "e", " ", "p",
                                         "a", "t", "t", "e", "r", "n", " ", "m", "a", "t", "c",
                                         "h", "i", "n", "g">>)
                \/ /\ Contains(first_100, <<"g", "l", "o", "b", " ", "p", "a", "t", "t", "e",
                                            "r", "n", "s">>)
                   /\ Contains(first_100, <<"*", "*", "/", "*", ".", "j", "s">>)
         [] name = "Task" ->
                \/ StartsWith(content, <<"L", "a", "u", "n", "c", "h", " ", "a", " ", "n", "e",
                                         "w", " ", "a", "g", "e", "n", "t", " ", "t", "o", " ",
                                         "h", "a", "n", "d", "l", "e", " ", "c", "o", "m", "p",
                                         "l", "e", "x">>)
                \/ Contains(first_100, <<"l", "a", "u", "n", "c", "h", "e", "s", " ", "s", "p",
                                         "e", "c", "i", "a", "l", "i", "z", "e", "d", " ", "a",
                                         "g", "e", "n", "t", "s">>)
         [] name = "TodoWrite" ->
                StartsWith(content,
                    <<"U", "s", "e", " ", "t", "h", "i", "s", " ", "t", "o", "o", "l", " ",
                      "t", "o", " ", "c", "r", "e", "a", "t", "e", " ", "a", "n", "d", " ",
                      "m", "a", "n", "a", "g", "e", " ", "a", " ", "s", "t", "r", "u", "c",
                      "t", "u", "r", "e", "d", " ", "t", "a", "s", "k", " ", "l", "i", "s",
                      "t">>)
         [] name = "WebFetch" ->
                Contains(first_100, <<"F", "e", "t", "c", "h", "e", "s", " ", "c", "o", "n",
                                      "t", "e", "n", "t", " ", "f", "r", "o", "m", " ", "a",
                                      " ", "s", "p", "e", "c", "i", "f", "i", "e", "d", " ",
                                      "U", "R", "L">>)
         [] name = "WebSearch" ->
                Contains(first_100, <<"A", "l", "l", "o", "w", "s", " ", "C", "l", "a", "u",
                                      "d", "e", " ", "t", "o", " ", "s", "e", "a", "r", "c",
                                      "h", " ", "t", "h", "e", " ", "w", "e", "b">>)
         [] name = "NotebookEdit" ->
                \/ StartsWith(content,
                       <<"C", "o", "m", "p", "l", "e", "t", "e", "l", "y", " ", "r", "e", "p",
                         "l", "a", "c", "e", "s", " ", "t", "h", "e", " ", "c", "o", "n", "t",
                         "e", "n", "t", "s", " ", "o", "f", " ", "a", " ", "s", "p", "e", "c",
                         "i", "f", "i", "c", " ", "c", "e", "l", "l">>)
                \/ /\ Contains(first_100, <<"J", "u", "p", "y", "t", "e", "r", " ", "n", "o",
                                            "t", "e", "b", "o", "o", "k">>)
                   /\ Contains(first_100, <<"c", "e", "l", "l">>)
                   /\ Contains(first_100, <<"i", "p", "y", "n", "b">>)
         [] name = "AskUserQuestion" ->
                StartsWith(content, <<"U", "s", "e", " ", "t", "h", "i", "s", " ", "t", "o",
                                      "o", "l", " ", "w", "h", "e", "n", " ", "y", "o", "u",
                                      " ", "n", "e", "e", "d", " ", "t", "o", " ", "a", "s",
                                      "k", " ", "t", "h", "e", " ", "u", "s", "e", "r">>)
         [] name = "Skill" ->
                Contains(first_100, <<"E", "x", "e", "c", "u", "t", "e", " ", "a", " ", "s",
                                      "k", "i", "l", "l", " ", "w", "i", "t", "h", "i", "n",
                                      " ", "t", "h", "e", " ", "m", "a", "i", "n", " ", "c",
                                      "o", "n", "v", "e", "r", "s", "a", "t", "i", "o", "n">>)
         [] name = "SlashCommand" -> Contains(first_100, <<"E", "x", "e", "c", "u", "t", "e",
                                                           " ", "a", " ", "s", "l", "a", "s",
                                                           "h", " ", "c", "o", "m", "m", "a",
                                                           "n", "d">>)
         [] name = "ExitPlanMode" ->
                Contains(first_100, <<"p", "l", "a", "n", " ", "m", "o", "d", "e">>) /\ Contains(first_100, <<"r", "e", "a", "d",
                                                                            "y", " ", "t", "o",
                                                                            " ", "c", "o", "d",
                                                                            "e">>)
         [] name = "BashOutput" ->
                \/ Contains(first_100, <<"R", "e", "t", "r", "i", "e", "v", "e", "s", " ", "o",
                                         "u", "t", "p", "u", "t", " ", "f", "r", "o", "m", " ",
                                         "a", " ", "r", "u", "n", "n", "i", "n", "g">>)
                \/ Contains(first_100,
                       <<"R", "e", "t", "r", "i", "e", "v", "e", "s", " ", "o", "u", "t", "p",
                         "u", "t", " ", "f", "r", "o", "m", " ", "a", " ", "r", "u", "n", "n",
                         "i", "n", "g", " ", "o", "r", " ", "c", "o", "m", "p", "l", "e", "t",
                         "e", "d", " ", "b", "a", "c", "k", "g", "r", "o", "u", "n", "d">>)
         [] name = "KillShell" ->
                \/ Contains(first_100, <<"K", "i", "l", "l", "s", " ", "a", " ", "r", "u", "n",
                                         "n", "i", "n", "g", " ", "b", "a", "c", "k", "g", "r",
                                         "o", "u", "n", "d", " ", "b", "a", "s", "h">>)
                \/ Contains(first_100, <<"K", "i", "l", "l", "s", " ", "a", " ", "r", "u", "n",
                                         "n", "i", "n", "g", " ", "b", "a", "c", "k", "g", "r",
                                         "o", "u", "n", "d", " ", "b", "a", "s", "h", " ", "s",
                                         "h", "e", "l", "l">>)
         [] name = "LSP" ->
                StartsWith(content, <<"I", "n", "t", "e", "r", "a", "c", "t", " ", "w", "i",
                                      "t", "h", " ", "L", "a", "n", "g", "u", "a", "g", "e",
                                      " ", "S", "e", "r", "v", "e", "r", " ", "P", "r", "o",
                                      "t", "o", "c", "o", "l">>)
         [] OTHER -> FALSE

\* Extractor::find_best_prompt_for_tool: max_by_key gives the last of the
\* longest candidates; <<>> when there is none
FindBestPromptForTool(all_prompts, tool_name) ==
    LET candidates == {i \in 1..Len(all_prompts) :
                          MatchesToolPattern(all_prompts[i].content, tool_name)}
        best == CHOOSE i \in candidates :
                    \A j \in candidates :
                        \/ all_prompts[j].length < all_prompts[i].length
                        \/ all_prompts[j].length = all_prompts[i].length /\ j <= i
    IN IF candidates = {} THEN <<>> ELSE <<all_prompts[best]>>

\* a test that also replaces on a prompt exactly twice as long
Mut_ShouldReplace(tool, prompt) ==
    \/ prompt.length >= ByteLen(tool.description) * 2
    \/ tool.confidence < 8
    \/ StartsWith(tool.description, <<"T", "o", "o", "l", ":">>)
    \/ StartsWith(tool.description, <<"A", " ", "p", "o", "w", "e", "r", "f", "u", "l", " ",
                                      "s", "e", "a", "r", "c", "h", " ", "t", "o", "o", "l">>)

\* should_replace of the enrichment loop
ShouldReplace(tool, prompt) ==
    \/ prompt.length > ByteLen(tool.description) * 2
    \/ tool.confidence < 8
    \/ StartsWith(tool.description, <<"T", "o", "o", "l", ":">>)
    \/ StartsWith(tool.description, <<"A", " ", "p", "o", "w", "e", "r", "f", "u", "l", " ",
                                      "s", "e", "a", "r", "c", "h", " ", "t", "o", "o", "l">>)

\* an enrichment that gives the record the confidence of a description match
Mut_EnrichedConfidence == 10 - 2

\* the confidence of an enriched record, 1.0
EnrichedConfidence == 10

(***************************************************************************)
(* Input texts and the two tool extractors as state machines.              *)
(***************************************************************************)
MaxSnippets == 2   \* snippets of the regenerated text
MaxPrompts == 2    \* enhanced prompts handed to the enrichment

LongDescription ==
    <<"R", "u", "n", "s", " ", "a", " ", "s", "h", "e", "l", "l", " ", "c", "o", "m", "m", "a",
      "n", "d", " ", "i", "n", " ", "t", "h", "e", " ", "s", "a", "n", "d", "b", "o", "x", " ",
      "a", "n", "d", " ", "r", "e", "t", "u", "r", "n", "s", " ", "w", "h", "a", "t", " ", "i",
      "t", " ", "p", "r", "i", "n", "t", "e", "d", ".", " ">>
    \o <<"T", "h", "e", " ", "c", "o", "m", "m", "a", "n", "d", " ", "i", "s", " ", "k", "i",
         "l", "l", "e", "d", " ", "w", "h", "e", "n", " ", "i", "t", " ", "r", "u", "n", "s",
         " ", "f", "o", "r", " ", "m", "o", "r", "e", " ", "t", "h", "a", "n", " ", "t", "w",
         "o", " ", "m", "i", "n", "u", "t", "e", "s", ".">>

SnippetPool ==
    << <<"v", "a", "r", " ", "x", "4", "=", "\"", "B", "a", "s", "h", "\"", ";", " ", "v", "a",
         "r", " ", "y", "=", "\"", "E", "x", "e", "c", "u", "t", "e", " ", "b", "a", "s", "h",
         " ", "c", "o", "m", "m", "a", "n", "d", "s", " ", "i", "n", " ", "a", " ", "p", "e",
         "r", "s", "i", "s", "t", "e", "n", "t", " ", "s", "h", "e", "l", "l", ".", " ", "U",
         "s", "a", "g", "e", ":", " ", "r", "u", "n", " ", "s", "h", "e", "l", "l", " ", "c",
         "o", "d", "e", ".", "\"", ";">>,
       <<"v", "a", "r", " ", "G", "7", " ", "=", " ", "\"", "R", "e", "a", "d", "\"", ",", " ",
         "F", "H", "B", " ", "=", " ", "\"", "R", "e", "a", "d", " ", "$", "{", "x", "}", " ",
         "f", "r", "o", "m", " ", "t", "h", "e", " ", "l", "o", "c", "a", "l", " ", "f", "i",
         "l", "e", "s", "y", "s", "t", "e", "m", ".", "\"", ";", "\n">>,
       <<"v", "a", "r", " ", "o", "W", " ", "=", " ", "\"", "W", "r", "i", "t", "e", "\"", ";",
         "\n", "v", "a", "r", " ", "d", " ", "=", " ", Backtick, "W", "r", "i", "t", "e", "s",
         " ", "a", " ", "f", "i", "l", "e", ".", Backtick, ";", "\n">>,
       <<"t", "o", "o", "l", "(", "{", "n", "a", "m", "e", ":", " ", "G", "7", ",", " ", "i",
         "n", "p", "u", "t", "S", "c", "h", "e", "m", "a", ":", " ", "s", "}", ")", ";", "\n">>,
       <<"v", "a", "r", " ", "s", " ", "=", " ", "\"", "S", "I", "G", "H", "U", "P", "\"", ";",
         " ", "v", "a", "r", " ", "z", " ", "=", " ", "\"", "F", "o", "o", "\"", ",", " ", "n",
         " ", "=", " ", "1", ";", "\n">>,
       <<Backtick>> \o LongDescription \o <<Backtick, ";", "\n">>,
       <<"é">> \o Repeat("-", 992) >>

RECURSIVE Concat(_)
Concat(texts) == IF texts = <<>> THEN <<>> ELSE Head(texts) \o Concat(Tail(texts))

\* the environments of `var x = "A";`, `var x = "${x}";` and
\* `var x = y; var y = x;`
Environments ==
    { Insert(EmptyMap, "x", SymString(<<"A">>)),
      Insert(EmptyMap, "x", SymString(<<"$", "{", "x", "}">>)),
      Insert(Insert(EmptyMap, "x", SymObjectRef("y")), "y", SymObjectRef("x")) }

PromptPool ==
    << EnhancedPrompt(<<"E", "x", "e", "c", "u", "t", "e", "s", " ", "a", " ", "g", "i", "v",
                        "e", "n", " ", "b", "a", "s", "h", " ", "c", "o", "m", "m", "a", "n",
                        "d", " ", "i", "n", " ", "a", " ", "p", "e", "r", "s", "i", "s", "t",
                        "e", "n", "t", " ", "s", "h", "e", "l", "l", " ", "s", "e", "s", "s",
                        "i", "o", "n", " ", "w", "i", "t", "h", " ", "o", "p", "t", "i", "o",
                        "n", "a", "l", " ", "t", "i", "m", "e", "o", "u", "t", ".">>),
       EnhancedPrompt(<<"E", "x", "e", "c", "u", "t", "e", "s", " ", "a", " ", "g", "i", "v",
                        "e", "n", " ", "b", "a", "s", "h", " ", "c", "o", "m", "m", "a", "n",
                        "d", " ", "a", "n", "d", " ", "r", "e", "t", "u", "r", "n", "s", " ",
                        "i", "t", "s", " ", "o", "u", "t", "p", "u", "t", ".">>),
       EnhancedPrompt(<<"R", "e", "a", "d", "s", " ", "a", " ", "f", "i", "l", "e", " ", "f",
                        "r", "o", "m", " ", "t", "h", "e", " ", "l", "o", "c", "a", "l", " ",
                        "f", "i", "l", "e", "s", "y", "s", "t", "e", "m", ".", " ", "Y", "o",
                        "u", " ", "c", "a", "n", " ", "a", "c", "c", "e", "s", "s", " ", "a",
                        "n", "y", " ", "f", "i", "l", "e", " ", "d", "i", "r", "e", "c", "t",
                        "l", "y", " ", "b", "y", " ", "u", "s", "i", "n", "g", " ", "t", "h",
                        "i", "s", " ", "t", "o", "o", "l", ".">>),
       \* twice as long as "Read A from the local filesystem."
       EnhancedPrompt(<<"R", "e", "a", "d", "s", " ", "a", " ", "f", "i", "l", "e", " ", "f",
                        "r", "o", "m", " ", "t", "h", "e", " ", "l", "o", "c", "a", "l", " ",
                        "f", "i", "l", "e", "s", "y", "s", "t", "e", "m", ".", " ", "T", "h",
                        "e", " ", "p", "a", "t", "h", " ", "m", "u", "s", "t", " ", "b", "e",
                        " ", "a", "b", "s", "o", "l", "u", "t", "e", ".">>) >>

InitTools ==
    /\ \/ /\ pc = "ast"
          /\ \E n \in 0..MaxObjects : \E idx \in [1..n -> 1..ObjectPoolSize] :
                objects = [i \in 1..n |-> ObjectExpressionInfo(ObjectAt(idx[i]))]
          /\ captures = <<>>
          /\ beautified_code = <<>>
          /\ with_ast = FALSE
          /\ symbols = EmptyMap
       \/ /\ pc = "beautified"
          /\ objects = <<>>
          /\ \E n \in 0..MaxSnippets : \E idx \in [1..n -> 1..Len(SnippetPool)] :
                beautified_code = Concat([i \in 1..n |-> SnippetPool[idx[i]]])
          /\ captures = NameMatches(beautified_code, 1)
          /\ \/ with_ast = FALSE /\ symbols = EmptyMap
             \/ with_ast = TRUE /\ symbols \in Environments
    /\ tool_idx = 1
    /\ tools = <<>>
    /\ SymbolTableIdle
    /\ TemplateIdle
    /\ SchemaIdle
    /\ DedupIdle
    /\ EnrichIdle
    /\ TextIdle
    /\ AssembleIdle

\* one iteration of the loop of BeautifiedToolExtractor::extract
ExtractFromCapture ==
    /\ pc = "beautified"
    /\ tool_idx <= Len(captures)
    /\ LET likely == IsLikelyToolName(captures[tool_idx].tool_name)
           tool == BeautifiedTool(beautified_code, captures[tool_idx], with_ast, symbols)
       IN /\ tools' = IF likely /\ tool.kind = "Some" THEN Append(tools, tool.s) ELSE tools
          /\ pc' = IF ~likely \/ tool.kind = "Some" THEN pc
                    ELSE IF tool.kind = "Panic" THEN "panicked"
                    ELSE IF tool.kind = "Diverges" THEN "diverged"
                    ELSE "aborted"
    /\ tool_idx' = tool_idx + 1
    /\ UNCHANGED <<symvars, tmplvars, schemavars, dedupvars, enrichvars, textvars, assemblevars,
                   objects, captures, beautified_code, with_ast>>

\* the loop is over: extract returns tools
ExtractReturn ==
    /\ \/ pc = "ast" /\ tool_idx > Len(objects)
       \/ pc = "beautified" /\ tool_idx > Len(captures)
    /\ pc' = pc \o "_done"
    /\ UNCHANGED <<symvars, tmplvars, extvars>>

\* extract_tools_with_enhanced_prompts got the base tools from the extractor
\* it made with with_ast and enters its loop over them
StartEnrichment ==
    /\ pc = "beautified_done"
    /\ with_ast
    /\ \E n \in 0..MaxPrompts : \E idx \in [1..n -> 1..Len(PromptPool)] :
           enhanced_prompts' = [i \in 1..n |-> PromptPool[idx[i]]]
    /\ base_tools' = tools
    /\ enrich_idx' = 1
    /\ replaced' = [i \in 1..Len(tools) |-> 0]
    /\ pc' = "enrich"
    /\ UNCHANGED <<symvars, tmplvars, schemavars, dedupvars, toolvars, textvars, assemblevars>>

\* one iteration of the loop `for tool in &mut tools`
EnrichTool ==
    /\ pc = "enrich"
    /\ enrich_idx <= Len(tools)
    /\ LET tool == tools[enrich_idx]
           prompt == FindBestPromptForTool(enhanced_prompts, tool.name)
       IN IF Len(prompt) = 1 /\ ShouldReplace(tool, prompt[1])
          THEN /\ tools' = [tools EXCEPT ![enrich_idx] =
                               [tool EXCEPT !.description = prompt[1].content,
                                            !.confidence = EnrichedConfidence]]
               /\ replaced' = [replaced EXCEPT ![enrich_idx] = @ + 1]
          ELSE UNCHANGED <<tools, replaced>>
    /\ enrich_idx' = enrich_idx + 1
    /\ UNCHANGED <<pc, symvars, tmplvars, schemavars, dedupvars, textvars, assemblevars, objects,
                   captures, tool_idx, beautified_code, with_ast, enhanced_prompts,
                   base_tools>>

\* the loop is over: Ok(tools)
EnrichReturn ==
    /\ pc = "enrich"
    /\ enrich_idx > Len(tools)
    /\ pc' = "enriched"
    /\ UNCHANGED <<symvars, tmplvars, extvars>>

NextTools ==
    \/ ExtractFromObject
    \/ ExtractFromCapture
    \/ ExtractReturn
    \/ StartEnrichment
    \/ EnrichTool
    \/ EnrichReturn

SpecTools == InitTools /\ [][NextTools]_vars


(***************************************************************************)
(* C12                                                                     *)
(***************************************************************************)
\* the matches of the name pattern whose word passes the tool-name test
LikelyCaptures ==
    {i \in 1..Len(captures) : IsLikelyToolName(captures[i].tool_name)}

BeautifiedRunOver == pc \in {"beautified_done", "panicked", "diverged", "aborted"}

\* C12: when the builder is through with a regenerated text, every declaration
\* var <id> = "<CapitalizedWord>" followed by ',' or ';' whose word passes the
\* tool-name test has yielded one tool record with that name and a confidence
\* of at least 0.6; so has `var x4="Bash"` of the scenario text
C12_DeclarationsYieldRecords ==
    BeautifiedRunOver =>
        /\ Len(tools) = Cardinality(LikelyCaptures)
        /\ \A i \in LikelyCaptures :
               LET k == Cardinality({j \in LikelyCaptures : j <= i})
               IN /\ tools[k].name = Join(captures[i].tool_name)
                  /\ tools[k].confidence >= 6

(***************************************************************************)
(* C14                                                                     *)
(***************************************************************************)
\* C14: in a run of the enrichment loop no record has its description replaced
\* more than once, and no record holds a confidence below the one it had when
\* the loop began
C14_EnrichedOnceNeverLowered ==
    pc \in {"enrich", "enriched"} =>
        /\ Len(tools) = Len(base_tools)
        /\ \A i \in 1..Len(tools) :
               /\ replaced[i] <= 1
               /\ tools[i].confidence >= base_tools[i].confidence
               /\ tools[i].name = base_tools[i].name

\* the loop is over, and it replaced the description of a record that had full
\* confidence when the loop began
C14_Witness ==
    /\ pc = "enriched"
    /\ \E i \in 1..Len(tools) :
           /\ replaced[i] = 1
           /\ base_tools[i].confidence = 10
           /\ tools[i].description # base_tools[i].description
           /\ tools[i].confidence = 10


(***************************************************************************)
(* C21                                                                     *)
(***************************************************************************)
\* the positions of the return statements of a body that have an argument
ReturnsWithArgument(body) ==
    {k \in 1..Len(body) : body[k].kind = "ReturnStatement" /\ body[k].argument # <<>>}

\* C21: visiting a function declaration binds the function's name to the
\* value of the first return statement of its body that has an argument and
\* changes no other binding; later return statements do not change that
\* binding, and a function whose body has no return with an argument leaves
\* the environment as it was.
C21_FirstReturnOnly ==
    [][(/\ pc = "pass1"
        /\ stmt_idx <= Len(program)
        /\ program[stmt_idx].kind = "FunctionDeclaration") =>
          LET func == program[stmt_idx]
              returns == ReturnsWithArgument(func.body)
          IN IF returns = {}
             THEN symbols' = symbols
             ELSE LET first == CHOOSE k \in returns : \A h \in returns : k <= h
                  IN /\ DOMAIN symbols' = DOMAIN symbols \cup {func.id}
                     /\ symbols'[func.id] = ExtractValue(func.body[first].argument[1]).value
                     /\ \A name \in DOMAIN symbols \ {func.id} :
                           symbols'[name] = symbols[name]]_vars

\* function f() { return; return `B${..}`; return "C"; } was visited and f
\* holds the template, and function n() { var a = "in"; } was visited and n
\* is not bound
C21_Witness ==
    /\ pc = "pass1"
    /\ stmt_idx = 3
    /\ program[1].kind = "FunctionDeclaration"
    /\ Cardinality(ReturnsWithArgument(program[1].body)) = 2
    /\ symbols[program[1].id] = SymTemplateLiteral(<<"B", "$", "{", ".", ".", ".", "}">>)
    /\ program[2].kind = "FunctionDeclaration"
    /\ ReturnsWithArgument(program[2].body) = {}
    /\ program[2].id \notin DOMAIN symbols


(***************************************************************************)
(* C22                                                                     *)
(***************************************************************************)
\* k.object({ ref: s })
ReferringCall ==
    CallExpression(K("object"),
        <<ObjectExpression(<<ObjectProperty(StaticIdentifierKey("ref"), Identifier("s"))>>)>>)

\* C22: for the program var s = k.object({ name: k.string() }) the later
\* call k.object({ ref: s }) is recovered as an object schema whose property
\* ref is the schema of s.
C22_ReferencedSchemaNested ==
    (pc = "schema_done" /\ schema_call = ReferringCall /\ "s" \in DOMAIN symbols)
        => /\ Len(schema_result) = 1
           /\ schema_result[1]["properties"] =
                  [ref |-> [type |-> "object",
                            properties |-> [name |-> [type |-> "string"]],
                            required |-> <<"name">>]]


(***************************************************************************)
(* C23                                                                     *)
(***************************************************************************)
\* a record of the regenerated-text channel that rests on a name alone: no
\* description was found (the description is the stand-in "Tool: <name>")
\* and no schema (the properties are name and description only)
NameOnlyRecord(tool) ==
    /\ tool.name # ""
    /\ tool.parameters = <<>>
    /\ tool.properties = <<"name", "description">>
    /\ Len(tool.description) > 6
    /\ Take(tool.description, 6) = <<"T", "o", "o", "l", ":", " ">>
    /\ Join(SubSeq(tool.description, 7, Len(tool.description))) = tool.name

\* C23: the confidence of a record is the sum of 0.2 for a name, 0.2 for a
\* description, 0.4 for a full prompt and 0.2 for a schema, capped at 1.0; a
\* record with a name and no other evidence has confidence 0.2 (2 tenths).
C23_NameOnlyIsTwoTenths ==
    pc \in {"beautified", "beautified_done"} =>
        \A i \in 1..Len(tools) : NameOnlyRecord(tools[i]) => tools[i].confidence = 2


(***************************************************************************)
(* C24                                                                     *)
(***************************************************************************)
\* the descriptions the enrichment treats as stand-ins
C24_Placeholder(description) ==
    \/ StartsWith(description, <<"T", "o", "o", "l", ":">>)
    \/ StartsWith(description, <<"A", " ", "p", "o", "w", "e", "r", "f", "u", "l", " ", "s",
                                 "e", "a", "r", "c", "h", " ", "t", "o", "o", "l">>)

\* C24 as stated: the record is replaced by its best matching document exactly
\* when the document is at least twice as long as the description, or the
\* confidence is below 0.8, or the description is a stand-in; the replaced
\* record has confidence 1.0 and any other record is unchanged.
C24_ReplacedWhenAtLeastTwice ==
    [][enrich_idx' = enrich_idx + 1 =>
          LET tool == tools[enrich_idx]
              best == FindBestPromptForTool(enhanced_prompts, tool.name)
          IN IF /\ Len(best) = 1
                /\ \/ ByteLen(best[1].content) >= 2 * ByteLen(tool.description)
                   \/ tool.confidence < 8
                   \/ C24_Placeholder(tool.description)
             THEN tools' = [tools EXCEPT ![enrich_idx] =
                               [name |-> tool.name, description |-> best[1].content,
                                parameters |-> tool.parameters,
                                properties |-> tool.properties, confidence |-> 10]]
             ELSE tools' = tools]_vars

\* C24 amended: the same with a document that is more than twice as long as
\* the description.
C24_ReplacedWhenMoreThanTwice ==
    [][enrich_idx' = enrich_idx + 1 =>
          LET tool == tools[enrich_idx]
              best == FindBestPromptForTool(enhanced_prompts, tool.name)
          IN IF /\ Len(best) = 1
                /\ \/ ByteLen(best[1].content) > 2 * ByteLen(tool.description)
                   \/ tool.confidence < 8
                   \/ C24_Placeholder(tool.description)
             THEN tools' = [tools EXCEPT ![enrich_idx] =
                               [name |-> tool.name, description |-> best[1].content,
                                parameters |-> tool.parameters,
                                properties |-> tool.properties, confidence |-> 10]]
             ELSE tools' = tools]_vars

\* the loop has passed a record whose best document is exactly twice as long
\* as its description and left it as it was, and has replaced another record
C24_Witness ==
    /\ pc = "enrich"
    /\ \E i \in 1..(enrich_idx - 1) :
          LET best == FindBestPromptForTool(enhanced_prompts, base_tools[i].name)
          IN /\ Len(best) = 1
             /\ ByteLen(best[1].content) = 2 * ByteLen(base_tools[i].description)
             /\ base_tools[i].confidence >= 8
             /\ tools[i] = base_tools[i]
    /\ \E i \in 1..(enrich_idx - 1) : replaced[i] = 1 /\ tools[i].confidence = 10


(***************************************************************************)
(* The fragment assembler: EnhancedPromptExtractor::extract gathers the    *)
(* candidate documents from the string literals and from the environment,  *)
(* associates them with tools and merges fragments                         *)
(* (extractor/prompts_enhanced.rs).  Tool names of a document are strings. *)
(***************************************************************************)
Standalone == [type |-> "Standalone"]

ToolDocumentation(tool_name) == [type |-> "ToolDocumentation", tool_name |-> tool_name]

\* the EnhancedSystemPrompt that both channels of extract construct
EnhancedSystemPrompt(id, content, category) ==
    [id |-> id, content |-> content, length |-> ByteLen(content), category |-> category,
     context |-> Standalone, associated_tool |-> <<>>, merged_fragments |-> <<>>]

\* the names of the bindings extract_from_symbol_table makes a prompt of
SymbolPromptNames(table) ==
    {name \in DOMAIN table :
        /\ table[name].tag \in {"String", "TemplateLiteral"}
        /\ IsSymbolPrompt(table[name].s)}

\* EnhancedPromptExtractor::extract_from_symbol_table; order is the order in
\* which the iteration of the HashMap meets the bindings that become
\* prompts (the other bindings add nothing and leave idx as it is)
RECURSIVE ExtractFromSymbolTable(_, _, _)
ExtractFromSymbolTable(table, order, idx) ==
    IF idx >= Len(order) THEN <<>>
    ELSE LET name == order[idx + 1]
             s == table[name].s
         IN <<EnhancedSystemPrompt(<<"prompt_sym", name, idx>>, s, CategorizePromptStr(s))>>
            \o ExtractFromSymbolTable(table, order, idx + 1)

\* known_tools of associate_tools, in the order of the array
AssociationOrder ==
    <<<<"B", "a", "s", "h">>, <<"R", "e", "a", "d">>, <<"W", "r", "i", "t", "e">>, <<"E", "d", "i", "t">>, <<"G", "r", "e", "p">>, <<"G", "l", "o", "b">>, <<"T", "a", "s", "k">>,
      <<"T", "o", "d", "o", "W", "r", "i", "t", "e">>, <<"N", "o", "t", "e", "b", "o", "o", "k", "E", "d", "i", "t">>, <<"W", "e", "b", "F", "e", "t", "c", "h">>, <<"W", "e", "b", "S", "e", "a", "r", "c",
                                                       "h">>,
      <<"S", "k", "i", "l", "l">>, <<"S", "l", "a", "s", "h", "C", "o", "m", "m", "a", "n", "d">>, <<"A", "s", "k", "U", "s", "e", "r", "Q", "u", "e", "s",
                                     "t", "i", "o", "n">>, <<"E", "x", "i", "t", "P", "l", "a",
                                                          "n", "M", "o", "d", "e">>,
      <<"B", "a", "s", "h", "O", "u", "t", "p", "u", "t">>, <<"K", "i", "l", "l", "S", "h", "e", "l", "l">>, <<"L", "S", "P">>>>

\* a search that goes on after a match and keeps the last tool that matches
RECURSIVE Mut_FirstToolFor(_, _)
Mut_FirstToolFor(content, k) ==
    IF k > Len(AssociationOrder) THEN <<>>
    ELSE LET later == Mut_FirstToolFor(content, k + 1)
         IN IF later # <<>> THEN later
            ELSE IF IsToolPromptFor(content, AssociationOrder[k])
                 THEN <<Join(AssociationOrder[k])>>
                 ELSE <<>>

\* the loop `for tool_name in &known_tools` of associate_tools, from tool k
\* on: the first tool whose test holds, and break
RECURSIVE FirstToolFor(_, _)
FirstToolFor(content, k) ==
    IF k > Len(AssociationOrder) THEN <<>>
    ELSE IF IsToolPromptFor(content, AssociationOrder[k])
         THEN <<Join(AssociationOrder[k])>>
         ELSE FirstToolFor(content, k + 1)

\* the closure associate_tools maps over the prompts
AssociateTool(prompt) ==
    LET found == IF prompt.category = "Tool" THEN FirstToolFor(prompt.content, 1) ELSE <<>>
    IN IF found = <<>> THEN prompt
       ELSE [prompt EXCEPT !.associated_tool = found,
                           !.context = ToolDocumentation(found[1])]

\* EnhancedPromptExtractor::associate_tools
AssociateTools(fragments) == [i \in 1..Len(fragments) |-> AssociateTool(fragments[i])]

\* the last item of content.lines(), <<>> when there is no line; the item is
\* wrapped in a tuple (the texts of this model hold no carriage return)
LastLine(content) ==
    IF content = <<>> THEN <<>>
    ELSE LET body == IF content[Len(content)] = "\n"
                     THEN SubSeq(content, 1, Len(content) - 1) ELSE content
             breaks == {i \in 1..Len(body) : body[i] = "\n"}
             from == IF breaks = {} THEN 1
                     ELSE (CHOOSE i \in breaks : \A j \in breaks : j <= i) + 1
         IN <<SubSeq(body, from, Len(body))>>

\* the first item of content.lines(), <<>> when there is no line
FirstLine(content) ==
    IF content = <<>> THEN <<>>
    ELSE LET breaks == {i \in 1..Len(content) : content[i] = "\n"}
             to == IF breaks = {} THEN Len(content)
                   ELSE (CHOOSE i \in breaks : \A j \in breaks : i <= j) - 1
         IN <<SubSeq(content, 1, to)>>

\* line.len() - line.trim_start().len()
Indent(line) ==
    LET solid == {i \in 1..Len(line) : line[i] \notin WhiteSpace}
    IN IF solid = {} THEN Len(line)
       ELSE (CHOOSE i \in solid : \A j \in solid : i <= j) - 1

\* content.chars().rev().take(n).collect(): the last n characters, last first
RevTake(content, n) ==
    LET m == IF Len(content) < n THEN Len(content) ELSE n
    IN [i \in 1..m |-> content[Len(content) + 1 - i]]

ContinuationWindow == 50

IndentTolerance == 2

\* EnhancedPromptExtractor::is_continuation
IsContinuation(first, second) ==
    LET first_end == RevTake(first, ContinuationWindow)
        second_start == Take(second, ContinuationWindow)
        last_line == LastLine(first)
        first_line == FirstLine(second)
        first_indent == Indent(last_line[1])
        second_indent == Indent(first_line[1])
        distance == IF first_indent >= second_indent THEN first_indent - second_indent
                    ELSE second_indent - first_indent
    IN IF /\ last_line # <<>> /\ first_line # <<>>
          /\ first_indent > 0 /\ distance <= IndentTolerance
       THEN TRUE
       ELSE IF Contains(first_end, <<"E", "x", "a", "m", "p", "l", "e">>) /\ Contains(second_start, <<"E", "x", "a", "m",
                                                                            "p", "l", "e">>)
       THEN TRUE
       ELSE Contains(first_end, <<"U", "s", "a", "g", "e">>) /\ Contains(second_start, <<"U", "s", "a", "g", "e">>)

MergeWindow == 5

\* an inner loop that appends the continuation and does not mark it as used
RECURSIVE Mut_Absorb(_, _, _, _, _, _)
Mut_Absorb(fragments, i, j, merged_content, merged_ids, used) ==
    IF j > Len(fragments) \/ j - i > MergeWindow
    THEN [content |-> merged_content, ids |-> merged_ids, used |-> used]
    ELSE IF j \in used
         THEN Mut_Absorb(fragments, i, j + 1, merged_content, merged_ids, used)
    ELSE IF IsContinuation(merged_content, fragments[j].content)
         THEN Mut_Absorb(fragments, i, j + 1, merged_content \o fragments[j].content,
                         Append(merged_ids, fragments[j].id), used)
    ELSE Mut_Absorb(fragments, i, j + 1, merged_content, merged_ids, used)

\* the inner loop of merge_fragments for the prompt at i, from candidate j on
RECURSIVE Absorb(_, _, _, _, _, _)
Absorb(fragments, i, j, merged_content, merged_ids, used) ==
    IF j > Len(fragments) \/ j - i > MergeWindow
    THEN [content |-> merged_content, ids |-> merged_ids, used |-> used]
    ELSE IF j \in used
         THEN Absorb(fragments, i, j + 1, merged_content, merged_ids, used)
    ELSE IF IsContinuation(merged_content, fragments[j].content)
         THEN Absorb(fragments, i, j + 1, merged_content \o fragments[j].content,
                     Append(merged_ids, fragments[j].id), used \cup {j})
    ELSE Absorb(fragments, i, j + 1, merged_content, merged_ids, used)

\* the body of the outer loop of merge_fragments for a prompt that is not
\* used: what is pushed to result, and used_indices afterwards
MergeFrom(fragments, i, used) ==
    LET prompt == fragments[i]
        r == IF IsIncompleteFragment(prompt.content)
             THEN Absorb(fragments, i, i + 1, prompt.content, <<prompt.id>>, used)
             ELSE [content |-> prompt.content, ids |-> <<prompt.id>>, used |-> used]
    IN [pushed |-> [id |-> prompt.id,
                    content |-> r.content,
                    length |-> ByteLen(r.content),
                    category |-> prompt.category,
                    context |-> prompt.context,
                    associated_tool |-> prompt.associated_tool,
                    merged_fragments |-> IF Len(r.ids) > 1 THEN r.ids ELSE <<>>],
        used |-> r.used \cup {i}]


(***************************************************************************)
(* The assembler as a state machine, on the programs                       *)
(* `var a = <init>; var b = <init>; ...`.                                  *)
(***************************************************************************)
MaxTexts == 2       \* declarations of a program of mixed initialisers
MaxFragments == 7   \* declarations of a program of fragments

\* a tool text that passes the tests of Bash and of BashOutput
BashText ==
    <<"E", "x", "e", "c", "u", "t", "e", "s", " ", "a", " ", "g", "i", "v", "e", "n", " ", "b",
      "a", "s", "h", " ", "c", "o", "m", "m", "a", "n", "d", ".", " ", "T", "h", "i", "s", " ",
      "t", "o", "o", "l", " ", "a", "l", "s", "o", " ", "R", "e", "t", "r", "i", "e", "v", "e",
      "s", " ", "o", "u", "t", "p", "u", "t", " ", "f", "r", "o", "m", " ", "a", " ", "r", "u",
      "n", "n", "i", "n", "g", " ", "s", "h", "e", "l", "l", ".">>

\* a list of identifiers that opens with an indicator of the environment channel
KeywordText ==
    <<"S", "u", "p", "p", "o", "r", "t", "s", " ", "c", "r", "e", "a", "t", "e", "F", "i", "l",
      "e", " ", "d", "e", "l", "e", "t", "e", "F", "i", "l", "e", " ", "r", "e", "n", "a", "m",
      "e", "F", "i", "l", "e", " ", "c", "o", "p", "y", "F", "i", "l", "e", " ", "m", "o", "v",
      "e", "F", "i", "l", "e", " ", "r", "e", "a", "d", "F", "i", "l", "e", " ", "w", "r", "i",
      "t", "e", "F", "i", "l", "e", " ", "s", "t", "a", "t", "F", "i", "l", "e", " ", "l", "i",
      "s", "t", "D", "i", "r">>

\* an incomplete fragment that ends with an anchor word, and a text that
\* opens with the same word, indented by four columns
AnchorHead ==
    <<"N", "o", "t", "e", ":", " ", "e", "v", "e", "r", "y", " ", "c", "a", "l", "l", " ", "r",
      "e", "t", "u", "r", "n", "s", " ", "t", "h", "e", " ", "l", "i", "s", "t", " ", "o", "f",
      " ", "m", "a", "t", "c", "h", "e", "s", ",", " ", "a", "s", " ", "i", "n", " ", "t", "h",
      "e", " ", "f", "o", "l", "l", "o", "w", "i", "n", "g", " ", "E", "x", "a", "m", "p", "l",
      "e">>

AnchorTail ==
    <<" ", " ", " ", " ", "E", "x", "a", "m", "p", "l", "e", " ", "o", "f", " ", "a", " ", "c",
      "a", "l", "l", " ", "t", "h", "a", "t", " ", "e", "n", "a", "b", "l", "e", "s", " ", "t",
      "h", "e", " ", "v", "e", "r", "b", "o", "s", "e", " ", "o", "u", "t", "p", "u", "t", " ",
      "o", "f", " ", "t", "h", "e", " ", "c", "o", "m", "m", "a", "n", "d", ".">>

AssemblePool ==
    << StringLiteral(BashText),
       StringLiteral(<<"Y", "o", "u", " ", "a", "r", "e", " ", "C", "l", "a", "u", "d", "e",
                       ".", " ", "E", "x", "e", "c", "u", "t", "e", "s", " ", "a", " ", "g",
                       "i", "v", "e", "n", " ", "b", "a", "s", "h", " ", "c", "o", "m", "m",
                       "a", "n", "d", " ", "f", "o", "r", " ", "t", "h", "e", " ", "u", "s",
                       "e", "r", ".", " ", "T", "h", "i", "s", " ", "t", "o", "o", "l", " ",
                       "i", "s", " ", "a", " ", "s", "h", "e", "l", "l", ".">>),
       StringLiteral(KeywordText),
       StringLiteral(<<"T", "h", "i", "s", " ", "t", "o", "o", "l", " ", "f", "o", "r", "m",
                       "a", "t", "s", " ", "t", "h", "e", " ", "o", "u", "t", "p", "u", "t",
                       " ", "o", "f", " ", "t", "h", "e", " ", "r", "e", "p", "o", "r", "t",
                       " ", "a", "s", " ", "a", " ", "t", "a", "b", "l", "e", " ", "w", "i",
                       "t", "h", " ", "o", "n", "e", " ", "r", "o", "w", " ", "p", "e", "r",
                       " ", "f", "i", "l", "e", ".">>),
       StringLiteral(<<"U", "s", "a", "g", "e", ":", " ", "r", "u", "n", " ", "i", "t", ".">>),
       StringLiteral(<<"c", "o", "n", "s", "t", " ", "a", " ", "=", " ", "1", ";", " ", "l",
                       "e", "t", " ", "b", " ", "=", " ", "2", ";", " ", "v", "a", "r", " ",
                       "c", " ", "=", " ", "f", "u", "n", "c", "t", "i", "o", "n", "(", ")",
                       " ", "{", " ", "r", "e", "t", "u", "r", "n", " ", "!", "a", ";", " ",
                       "}", " ", "/", "/", " ", "T", "h", "i", "s", " ", "t", "o", "o", "l">>),
       StringLiteral(<<"R", "e", "a", "d", "s", " ", "a", " ", "f", "i", "l", "e", " ", "f",
                       "r", "o", "m", " ", "t", "h", "e", " ", "l", "o", "c", "a", "l", " ",
                       "f", "i", "l", "e", "s", "y", "s", "t", "e", "m", ".", " ", "U", "s",
                       "e", " ", "t", "h", "i", "s", " ", "t", "o", "o", "l", " ", "t", "o",
                       " ", "l", "o", "o", "k", " ", "a", "t", " ", "a", "n", "y", " ", "f",
                       "i", "l", "e", " ", "d", "i", "r", "e", "c", "t", "l", "y", ".">>),
       StringLiteral(AnchorHead),
       StringLiteral(AnchorTail),
       TemplateLiteralExpr(<<<<"F", "a", "s", "t", " ", "f", "i", "l", "e", " ", "p", "a", "t",
                               "t", "e", "r", "n", " ", "m", "a", "t", "c", "h", "i", "n", "g",
                               " ", "t", "o", "o", "l", ".", " ", "U", "s", "e", " ", "t", "h",
                               "i", "s", " ", "f", "u", "n", "c", "t", "i", "o", "n", " ", "w",
                               "i", "t", "h", " ", "a", "n", "y", " ", "c", "o", "d", "e", "b",
                               "a", "s", "e", " ", "s", "i", "z", "e", ".">>>>, 0),
       StringLiteral(<<"N", "o", "t", "e", ":", " ", "t", "h", "i", "s", " ", "s", "e", "n",
                       "t", "e", "n", "c", "e", " ", "i", "s", " ", "c", "o", "m", "p", "l",
                       "e", "t", "e", " ", "a", "n", "d", " ", "s", "t", "a", "n", "d", "s",
                       " ", "a", "l", "o", "n", "e", " ", "i", "n", " ", "t", "h", "e", " ",
                       "o", "u", "t", "p", "u", "t", " ", "o", "f", " ", "t", "h", "e", " ",
                       "r", "u", "n", ".">>),
       NumericLiteral(7) >>

\* fragments that only the literal channel gathers: an incomplete one whose
\* last line is indented by four columns, and a complete one indented by
\* three columns
FragmentPool ==
    << <<"N", "o", "t", "e", ":", " ", "t", "h", "e", " ", "o", "p", "t", "i", "o", "n", "s",
         " ", "o", "f", " ", "t", "h", "e", " ", "c", "o", "m", "m", "a", "n", "d", " ", "a",
         "r", "e", " ", "l", "i", "s", "t", "e", "d", " ", "b", "e", "l", "o", "w", "\n", " ",
         " ", " ", " ", "-", " ", "t", "h", "e", " ", "f", "i", "r", "s", "t", " ", "o", "p",
         "t", "i", "o", "n", " ", "o", "f", " ", "t", "h", "e", " ", "l", "i", "s", "t">>,
       <<" ", " ", " ", "-", " ", "t", "h", "e", " ", "s", "e", "c", "o", "n", "d", " ", "o",
         "p", "t", "i", "o", "n", ",", " ", "A", "v", "a", "i", "l", "a", "b", "l", "e", " ",
         "o", "n", " ", "e", "v", "e", "r", "y", " ", "p", "l", "a", "t", "f", "o", "r", "m",
         " ", "a", "n", "d", " ", "i", "n", " ", "e", "v", "e", "r", "y", " ", "r", "e", "l",
         "e", "a", "s", "e", ".">> >>

\* SymbolTable::new on a program, all three passes
RECURSIVE VisitAll(_, _, _)
VisitAll(st, statements, i) ==
    IF i > Len(statements) THEN st
    ELSE VisitAll(VisitStatementOp(st, statements[i]), statements, i + 1)

BuiltTable(statements) ==
    LET st == VisitAll([symbols |-> EmptyMap, lazy_blocks |-> <<>>], statements, 1)
    IN ResolveRoundOp(MergeBlocks(st.symbols, st.lazy_blocks, 1))

\* StringLiteralCollector::visit_expression on the initialisers of this model
LiteralsOf(expr) ==
    CASE expr.kind = "StringLiteral" -> <<expr.value>>
      [] expr.kind = "TemplateLiteral" -> SelectSeq(expr.quasis, LAMBDA q : q # <<>>)
      [] OTHER -> <<>>

\* Analyzer::find_string_literals on a program of single declarations
RECURSIVE FindStringLiterals(_, _)
FindStringLiterals(statements, i) ==
    IF i > Len(statements) THEN <<>>
    ELSE LiteralsOf(statements[i].declarations[1].init[1])
         \o FindStringLiterals(statements, i + 1)

\* the orders in which an iteration can meet the members of a set
Orders(S) ==
    {order \in [1..Cardinality(S) -> S] :
        \A i, j \in 1..Cardinality(S) : i # j => order[i] # order[j]}

InitAssemble ==
    /\ pc = "gather"
    /\ \/ \E n \in 0..MaxTexts : \E idx \in [1..n -> 1..Len(AssemblePool)] :
              program = [i \in 1..n |-> Var(ChainNames[i], AssemblePool[idx[i]])]
       \/ \E n \in 0..MaxFragments : \E idx \in [1..n -> 1..Len(FragmentPool)] :
              program = [i \in 1..n |->
                            Var(ChainNames[i], StringLiteral(FragmentPool[idx[i]]))]
    /\ symbols = BuiltTable(program)
    /\ stmt_idx = 1
    /\ lazy_blocks = <<>>
    /\ symbols0 = EmptyMap
    /\ rounds = 0
    /\ last_changed = FALSE
    /\ string_literals = FindStringLiterals(program, 1)
    /\ lit_idx = 1
    /\ basic_prompts = <<>>
    /\ prompts_with_tools = <<>>
    /\ merge_idx = 1
    /\ used_indices = {}
    /\ merged_prompts = <<>>
    /\ TemplateIdle
    /\ SchemaIdle
    /\ DedupIdle
    /\ ToolsIdle
    /\ EnrichIdle
    /\ TextIdle

\* step 1 of extract: one iteration of the loop over the string literals
GatherLiteral ==
    /\ pc = "gather"
    /\ lit_idx <= Len(string_literals)
    /\ LET value == string_literals[lit_idx]
       IN basic_prompts' =
              IF IsLikelyPrompt(value)
              THEN Append(basic_prompts,
                          EnhancedSystemPrompt(<<"prompt_lit", lit_idx - 1>>, value,
                                               CategorizePrompt(value)))
              ELSE basic_prompts
    /\ lit_idx' = lit_idx + 1
    /\ UNCHANGED <<pc, symvars, tmplvars, schemavars, dedupvars, toolvars, enrichvars,
                   textvars, string_literals, prompts_with_tools, merge_idx, used_indices,
                   merged_prompts>>

\* step 1b of extract: the prompts of the environment are appended
GatherSymbols ==
    /\ pc = "gather"
    /\ lit_idx > Len(string_literals)
    /\ \E order \in Orders(SymbolPromptNames(symbols)) :
           basic_prompts' = basic_prompts \o ExtractFromSymbolTable(symbols, order, 0)
    /\ pc' = "associate"
    /\ UNCHANGED <<symvars, tmplvars, schemavars, dedupvars, toolvars, enrichvars, textvars,
                   string_literals, lit_idx, prompts_with_tools, merge_idx, used_indices,
                   merged_prompts>>

\* step 2 of extract
Associate ==
    /\ pc = "associate"
    /\ prompts_with_tools' = AssociateTools(basic_prompts)
    /\ pc' = "merge"
    /\ UNCHANGED <<symvars, tmplvars, schemavars, dedupvars, toolvars, enrichvars, textvars,
                   string_literals, lit_idx, basic_prompts, merge_idx, used_indices,
                   merged_prompts>>

\* step 3 of extract: one iteration of the outer loop of merge_fragments
MergeStep ==
    /\ pc = "merge"
    /\ merge_idx <= Len(prompts_with_tools)
    /\ IF merge_idx \in used_indices
       THEN UNCHANGED <<used_indices, merged_prompts>>
       ELSE LET r == MergeFrom(prompts_with_tools, merge_idx, used_indices)
            IN /\ merged_prompts' = Append(merged_prompts, r.pushed)
               /\ used_indices' = r.used
    /\ merge_idx' = merge_idx + 1
    /\ UNCHANGED <<pc, symvars, tmplvars, schemavars, dedupvars, toolvars, enrichvars,
                   textvars, string_literals, lit_idx, basic_prompts, prompts_with_tools>>

\* the outer loop is over: merge_fragments returns result
MergeReturn ==
    /\ pc = "merge"
    /\ merge_idx > Len(prompts_with_tools)
    /\ pc' = "merged"
    /\ UNCHANGED <<symvars, tmplvars, extvars>>

NextAssemble ==
    \/ GatherLiteral
    \/ GatherSymbols
    \/ Associate
    \/ MergeStep
    \/ MergeReturn

SpecAssemble == InitAssemble /\ [][NextAssemble]_vars


(***************************************************************************)
(* C25                                                                     *)
(***************************************************************************)
\* the positions in the priority order of the tools whose test holds on a text
MatchingTools(content) ==
    {k \in 1..Len(AssociationOrder) : IsToolPromptFor(content, AssociationOrder[k])}

Associated == pc \in {"merge", "merged"}

\* C25: after association every document has associated_tool = t exactly
\* when its context is ToolDocumentation{t}; only documents of category Tool
\* are associated; t is the first tool of the priority order whose
\* is_tool_prompt_for test holds on the content; a document of another
\* category or with no matching tool has context Standalone and no
\* associated tool; association changes nothing else.
C25_FirstMatchingTool ==
    Associated =>
        /\ Len(prompts_with_tools) = Len(basic_prompts)
        /\ \A i \in 1..Len(prompts_with_tools) :
              LET doc == prompts_with_tools[i]
                  matching == MatchingTools(doc.content)
              IN /\ [doc EXCEPT !.context = Standalone, !.associated_tool = <<>>]
                        = basic_prompts[i]
                 /\ doc.associated_tool = <<>> <=> doc.context = Standalone
                 /\ \A k \in 1..Len(AssociationOrder) :
                       doc.associated_tool = <<Join(AssociationOrder[k])>>
                           <=> doc.context = ToolDocumentation(Join(AssociationOrder[k]))
                 /\ doc.associated_tool # <<>> <=> (doc.category = "Tool" /\ matching # {})
                 /\ doc.associated_tool # <<>> =>
                       \E k \in matching :
                           /\ \A h \in matching : k <= h
                           /\ doc.associated_tool = <<Join(AssociationOrder[k])>>

\* a document that passes the tests of Bash and BashOutput is associated with
\* Bash, and a document of category System that passes the test of Bash is
\* Standalone
C25_Witness ==
    /\ Associated
    /\ \E i \in 1..Len(prompts_with_tools) :
          /\ Cardinality(MatchingTools(prompts_with_tools[i].content)) = 2
          /\ prompts_with_tools[i].category = "Tool"
          /\ prompts_with_tools[i].context = ToolDocumentation("Bash")
    /\ \E i \in 1..Len(prompts_with_tools) :
          /\ MatchingTools(prompts_with_tools[i].content) # {}
          /\ prompts_with_tools[i].category = "System"
          /\ prompts_with_tools[i].context = Standalone


(***************************************************************************)
(* C26                                                                     *)
(***************************************************************************)
\* the position among the inputs of merge_fragments of the prompt with an id
InputIndex(id) ==
    CHOOSE i \in 1..Len(prompts_with_tools) : prompts_with_tools[i].id = id

\* the ids of the prompts an output of merge_fragments is made of
PartsOf(output) ==
    IF output.merged_fragments = <<>> THEN <<output.id>> ELSE output.merged_fragments

\* the inputs that head an output, and the inputs that an output absorbed
Heads == {InputIndex(merged_prompts[k].id) : k \in 1..Len(merged_prompts)}

AbsorbedInputs ==
    UNION {{InputIndex(PartsOf(merged_prompts[k])[p]) :
               p \in 2..Len(PartsOf(merged_prompts[k]))} : k \in 1..Len(merged_prompts)}

\* the continuation test as the claim words it: the indentations of the last
\* line of the first text and of the first line of the second differ by at
\* most two columns, or both hold the same anchor word near the boundary
C26_Continues(first, second) ==
    LET a == Indent(LastLine(first)[1])
        b == Indent(FirstLine(second)[1])
    IN \/ a - b \in -2..2
       \/ \E anchor \in {<<"E", "x", "a", "m", "p", "l", "e">>, <<"U", "s", "a", "g", "e">>} :
              /\ Contains(SubSeq(first, Len(first) - 49, Len(first)), anchor)
              /\ Contains(Take(second, 50), anchor)

\* C26: when merge_fragments has returned, every incomplete document that
\* heads an output has absorbed the document that follows it if that one
\* continues it (indentation within two columns, or a shared anchor word
\* Example or Usage near the boundary), the parts of an output are in
\* encounter order, and no document more than 5 positions after the head was
\* absorbed.
C26_ContinuationsAbsorbed ==
    pc = "merged" =>
        /\ \A i \in Heads :
              (/\ i < Len(prompts_with_tools)
               /\ IsIncompleteFragment(prompts_with_tools[i].content)
               /\ C26_Continues(prompts_with_tools[i].content,
                                prompts_with_tools[i + 1].content))
                  => i + 1 \in AbsorbedInputs
        /\ \A k \in 1..Len(merged_prompts) :
              LET parts == PartsOf(merged_prompts[k])
              IN \A p \in 2..Len(parts) :
                    /\ InputIndex(parts[p - 1]) < InputIndex(parts[p])
                    /\ InputIndex(parts[p]) - InputIndex(parts[1]) <= MergeWindow


(***************************************************************************)
(* C27                                                                     *)
(***************************************************************************)
\* C27: every candidate document gathered from the string literals or from
\* the environment is at least 60 bytes long, is not a code fragment and is
\* not a keyword list.
C27_CandidatesFiltered ==
    \A i \in 1..Len(basic_prompts) :
        /\ ByteLen(basic_prompts[i].content) >= 60
        /\ ~IsCodeFragment(basic_prompts[i].content)
        /\ ~IsKeywordList(basic_prompts[i].content)


(***************************************************************************)
(* C28                                                                     *)
(***************************************************************************)
\* C28: a round of resolve_references adds no name and removes none, and
\* every binding that holds a String, TemplateLiteral, Number, Boolean or
\* Unresolved value holds the same value after the round.
C28_RoundKeepsNamesAndValues ==
    [][rounds' = rounds + 1 =>
          /\ DOMAIN symbols' = DOMAIN symbols
          /\ \A name \in DOMAIN symbols :
                symbols[name].tag \in {"String", "TemplateLiteral", "Number", "Boolean",
                                       "Unknown"}
                    => symbols'[name] = symbols[name]]_vars

\* a round has resolved a Reference in an environment that also holds a
\* binding that is not a Reference, and that binding is as it was
C28_Witness ==
    /\ rounds = 1
    /\ last_changed
    /\ \E name \in DOMAIN symbols0 :
          symbols0[name].tag = "ObjectRef" /\ symbols[name] # symbols0[name]
    /\ \E name \in DOMAIN symbols0 :
          symbols0[name].tag # "ObjectRef" /\ symbols[name] = symbols0[name]

(***************************************************************************)
(* C29                                                                     *)
(***************************************************************************)
\* the places <<k, p>> where input i is part p of output k
C29_Places(i) ==
    {kp \in (1..Len(merged_prompts)) \X (1..Len(prompts_with_tools)) :
        /\ kp[2] <= Len(PartsOf(merged_prompts[kp[1]]))
        /\ PartsOf(merged_prompts[kp[1]])[kp[2]] = prompts_with_tools[i].id}

\* the total content length of the inputs named by ids[p..]
RECURSIVE C29_TotalLength(_, _)
C29_TotalLength(ids, p) ==
    IF p > Len(ids) THEN 0
    ELSE ByteLen(prompts_with_tools[InputIndex(ids[p])].content) + C29_TotalLength(ids, p + 1)

\* C29: when merge_fragments has returned, every input document is part of
\* exactly one output, at exactly one place (as its head or as an absorbed
\* part, never both); the number of outputs plus the number of absorbed
\* documents is the number of inputs; the length field of every output is
\* the total content length of its parts; and a document that is not
\* incomplete and was not absorbed is output with its content unchanged.
C29_EveryInputUsedOnce ==
    pc = "merged" =>
        /\ \A i \in 1..Len(prompts_with_tools) : Cardinality(C29_Places(i)) = 1
        /\ Len(merged_prompts) + Cardinality(AbsorbedInputs) = Len(prompts_with_tools)
        /\ \A k \in 1..Len(merged_prompts) :
              merged_prompts[k].length = C29_TotalLength(PartsOf(merged_prompts[k]), 1)
        /\ \A i \in 1..Len(prompts_with_tools) :
              (/\ ~IsIncompleteFragment(prompts_with_tools[i].content)
               /\ i \notin AbsorbedInputs)
                  => \E k \in 1..Len(merged_prompts) :
                        /\ merged_prompts[k].id = prompts_with_tools[i].id
                        /\ merged_prompts[k].content = prompts_with_tools[i].content

\* merge_fragments has returned; one output absorbed a document, and a
\* document that is not incomplete heads an output of its own
C29_Witness ==
    /\ pc = "merged"
    /\ AbsorbedInputs # {}
    /\ \E i \in Heads : ~IsIncompleteFragment(prompts_with_tools[i].content)
    /\ Len(merged_prompts) >= 2


(***************************************************************************)
(* C30                                                                     *)
(***************************************************************************)
\* the call reaches parse_object_schema: a builder call on an object literal
C30_OnLiteral ==
    /\ IsSchemaBuilderCall(schema_call)
    /\ Len(schema_call.arguments) > 0
    /\ schema_call.arguments[1].kind = "ObjectExpression"

\* the object literal of the call, and the positions of its keyed properties
C30_Literal == schema_call.arguments[1].properties

C30_Keyed == {i \in 1..Len(C30_Literal) : C30_Literal[i].kind = "ObjectProperty"}

\* a property parse_object_schema cannot read: its key is neither a plain
\* identifier nor a string literal, or parse_schema_value yields no value
C30_Unreadable(p) ==
    \/ p.key.kind \notin {"StaticIdentifier", "StringLiteral"}
    \/ ParseSchemaValue(symbols, p.value) = <<>>

\* the key of a keyed property as a string
C30_KeyOf(p) == IF p.key.kind = "StaticIdentifier" THEN p.key.name ELSE Join(p.key.value)

\* C30: parse_object_schema is all-or-nothing: when a property of the object
\* literal has a key that is neither a plain identifier nor a string literal,
\* or a value parse_schema_value cannot resolve, no schema is produced (never
\* a tree of the other properties); and a tree that is produced has exactly
\* one properties entry per distinct property key of the literal.
C30_AllOrNothing ==
    (pc = "schema_done" /\ C30_OnLiteral) =>
        /\ (\E i \in C30_Keyed : C30_Unreadable(C30_Literal[i])) => schema_result = <<>>
        /\ Len(schema_result) = 1 =>
              DOMAIN schema_result[1]["properties"] =
                  {C30_KeyOf(C30_Literal[i]) : i \in C30_Keyed}

\* k.object was run on a literal of two properties, the first readable and
\* the second not, and produced no schema
C30_Witness ==
    /\ pc = "schema_done"
    /\ C30_OnLiteral
    /\ schema_call.callee.property = "object"
    /\ C30_Keyed = {1, 2}
    /\ ~C30_Unreadable(C30_Literal[1])
    /\ C30_Unreadable(C30_Literal[2])
    /\ schema_result = <<>>

====
